---- MODULE Spec2Model ----
(***************************************************************************)
(* Model of the exoware simulator server: the KV handlers (set, get,       *)
(* query) with their visibility gate, write-rate limiter and size limits,  *)
(* and the authentication middleware in front of every route.              *)
(*                                                                         *)
(* Header values and tokens are sequences of byte values; keys are byte    *)
(* strings held run by run.  A value body is a record [data, zeros]: the bytes of `data`    *)
(* followed by `zeros` zero bytes (the tests build their large bodies as   *)
(* vec![0; n]); Len(data) is a multiple of 3 so that its base64 text is    *)
(* the base64 text of `data` followed by the text of the zero run.         *)
(* The database maps each stored key to the decoded StoredValue record.    *)
(***************************************************************************)
EXTENDS Integers, Sequences, FiniteSets, TLC

VARIABLES
    now,        \* SystemTime::now() in milliseconds since the epoch
    cfg,        \* server configuration: bounds, public access flag
    db,         \* rocksdb: function from the stored keys to StoredValue
    streams,    \* stream registry: the set of topic names with a channel
    subs,       \* upgraded WebSocket connections: one handle_socket task each
    published,  \* history: per topic, the bodies publish accepted, in order
    req,        \* the request handled last
    resp,       \* the response to it
    written,    \* history: per key, the last successful set (time, value)
    skipped,    \* history: keys a query passed over since their last write
    ticks,      \* clock advances so far
    nwrites,    \* successful KV writes so far
    calls,      \* handler calls that have read shared state: before and after their write
    chans       \* the channel installed in the registry for each topic name

vars == <<now, cfg, db, streams, subs, published, req, resp, written,
          skipped, ticks, nwrites, calls, chans>>

----------------------------------------------------------------------------
(* Program constants *)

MAX_KEY_SIZE == 512
MAX_VALUE_SIZE == 20 * 1024 * 1024
MAX_MESSAGE_SIZE == 20 * 1024 * 1024
SecMs == 1000

(* Bounds of the model *)

MaxTicks == 2       \* clock advances explored
MaxBound == 1       \* largest consistency bound (ms) explored
MaxWrites == 3      \* successful KV writes explored
MaxSubs == 2        \* WebSocket connections explored
MaxAuthSubs == 1    \* WebSocket connections explored next to every credential
MaxAuthPublished == 1 \* publishes accepted next to every credential
MaxPublished == 2   \* publishes accepted per topic explored
MaxOverflow == 3    \* publishes explored beyond a backlog of CHANNEL_CAPACITY - 1
MaxForwards == 2    \* frames sent to a connection that falls behind
MaxCalls == 2       \* KV set calls in flight or completed in the race
MaxAdbWrites == 3   \* ADB writes to one key or node within one clock second
MaxBacklog == 2     \* messages waiting in a receiver while the publishers go on

----------------------------------------------------------------------------
(* Byte strings *)

Min(a, b) == IF a <= b THEN a ELSE b

Rep(b, n) == <<[b |-> b, n |-> n]>>

\* A key is a byte string held as its runs, <<[b |-> byte, n |-> count], ...>>
\* (adjacent runs of different bytes, every count positive), so that a key of
\* 512 equal bytes is one run.
RECURSIVE KeyLen(_)
KeyLen(k) == IF Len(k) = 0 THEN 0 ELSE k[1].n + KeyLen(Tail(k))

\* The key without its first c bytes, c at most the first run.
DropBytes(k, c) ==
    IF k[1].n = c THEN Tail(k) ELSE <<[b |-> k[1].b, n |-> k[1].n - c]>> \o Tail(k)

\* Ord for str / [u8]: lexicographic by byte, a proper prefix is smaller.
RECURSIVE BytesLe(_, _)
BytesLe(a, b) ==
    IF Len(a) = 0 THEN TRUE
    ELSE IF Len(b) = 0 THEN FALSE
    ELSE IF a[1].b # b[1].b THEN a[1].b < b[1].b
    ELSE LET c == Min(a[1].n, b[1].n)
         IN  BytesLe(DropBytes(a, c), DropBytes(b, c))

BytesLt(a, b) == BytesLe(a, b) /\ a # b

\* str::strip_prefix: the rest of s after prefix p, or "none".
StripPrefix(s, p) ==
    IF Len(s) >= Len(p) /\ SubSeq(s, 1, Len(p)) = p
    THEN [some |-> TRUE, rest |-> SubSeq(s, Len(p) + 1, Len(s))]
    ELSE [some |-> FALSE, rest |-> <<>>]

----------------------------------------------------------------------------
(* Values and base64 *)

ValLen(v) == Len(v.data) + v.zeros

\* One 3-byte group as four 6-bit symbols (indices into the base64 alphabet).
EncodeGroup(b1, b2, b3) ==
    << b1 \div 4,
       (b1 % 4) * 16 + (b2 \div 16),
       (b2 % 16) * 4 + (b3 \div 64),
       b3 % 64 >>

\* The symbol standing for the padding character '='.
Pad == 64

RECURSIVE EncodeData(_)
EncodeData(d) ==
    IF Len(d) = 0 THEN <<>>
    ELSE IF Len(d) = 1
         THEN <<d[1] \div 4, (d[1] % 4) * 16, Pad, Pad>>
    ELSE IF Len(d) = 2
         THEN <<d[1] \div 4, (d[1] % 4) * 16 + (d[2] \div 16), (d[2] % 16) * 4, Pad>>
    ELSE IF Len(d) = 3 THEN EncodeGroup(d[1], d[2], d[3])
    ELSE LET h == 3 * (((Len(d) + 2) \div 3) \div 2)      \* whole groups
         IN  EncodeData(SubSeq(d, 1, h)) \o EncodeData(SubSeq(d, h + 1, Len(d)))

\* general_purpose::STANDARD.encode: the text of the data bytes, then the
\* text of the run of `zeros` zero bytes.
Base64Encode(v) == [text |-> EncodeData(v.data), zeros |-> v.zeros]

DecodeGroup(s1, s2, s3, s4) ==
    << s1 * 4 + (s2 \div 16),
       (s2 % 16) * 16 + (s3 \div 4),
       (s3 % 4) * 64 + s4 >>

\* The text is decoded group by group up to the first padded group; the
\* recursion halves the text so that long texts stay shallow.
RECURSIVE DecodeText(_)
DecodeText(t) ==
    IF Len(t) = 0 THEN <<>>
    ELSE IF Len(t) <= 4
    THEN IF t[3] = Pad THEN <<t[1] * 4 + (t[2] \div 16)>>
         ELSE IF t[4] = Pad
              THEN <<t[1] * 4 + (t[2] \div 16), (t[2] % 16) * 16 + (t[3] \div 4)>>
         ELSE DecodeGroup(t[1], t[2], t[3], t[4])
    ELSE LET h == 4 * (((Len(t) + 3) \div 4) \div 2)
         IN  IF \E i \in 1..h : i % 4 \in {0, 3} /\ t[i] = Pad
             THEN DecodeText(SubSeq(t, 1, h))
             ELSE DecodeText(SubSeq(t, 1, h)) \o DecodeText(SubSeq(t, h + 1, Len(t)))

\* Whether STANDARD.decode accepts the text: whole groups of four symbols,
\* padding only at the end of the last group, no stray bits before it.
ValidText(t) ==
    /\ Len(t) % 4 = 0
    /\ \A i \in 1..Len(t) :
          \/ t[i] \in 0..63
          \/ /\ t[i] = Pad
             /\ i > Len(t) - 2
             /\ i = Len(t) \/ t[Len(t)] = Pad
    /\ Len(t) > 0 =>
          /\ (t[Len(t)] = Pad /\ t[Len(t) - 1] # Pad) => t[Len(t) - 1] % 4 = 0
          /\ t[Len(t) - 1] = Pad => t[Len(t) - 2] % 16 = 0

\* general_purpose::STANDARD.decode in the SDK client.
Base64Decode(e) == [data |-> DecodeText(e.text), zeros |-> e.zeros]

----------------------------------------------------------------------------
(* Requests and responses *)

None == <<>>
Some(x) == <<x>>

\* AppError::into_response: the status of each error kind.
StatusOf(err) ==
    CASE err = "KeyTooLarge" -> 413
      [] err = "ValueTooLarge" -> 413
      [] err = "UpdateRateExceeded" -> 429
      [] err = "NotFound" -> 404
      [] err = "DbError" -> 500
      [] err = "Bincode" -> 500

Ok(body) == [status |-> 200, error |-> "", body |-> body]
Err(kind) == [status |-> StatusOf(kind), error |-> kind, body |-> <<>>]

Request(op, method, header, query, args) ==
    [op |-> op, method |-> method, header |-> header, query |-> query,
     args |-> args, at |-> now]

----------------------------------------------------------------------------
(* KV handlers: src/simulator/src/server/store/handlers.rs *)

\* Mutant: the seconds are taken without the division.
MutNowSecsNoDivision(now_millis) == now_millis

NowSecs(now_millis) == now_millis \div SecMs

\* Mutant: a key of exactly MAX_KEY_SIZE bytes is refused too.
MutKeyTooLargeAtLimit(key) == KeyLen(key) >= MAX_KEY_SIZE

KeyTooLarge(key) == KeyLen(key) > MAX_KEY_SIZE

ValueTooLarge(value) == ValLen(value) > MAX_VALUE_SIZE

\* Mutant: the window of the limiter is empty.
MutRateExceededNoWindow(d, key, now_secs) ==
    /\ key \in DOMAIN d
    /\ now_secs - d[key].updated_at < 0

\* The rate limiter: an entry exists at the key, visible or not, and it was
\* written in the current clock second.
\* Mutant: an entry that is not visible yet does not count for the limiter.
MutRateExceededVisibleOnly(d, key, now_secs) ==
    /\ key \in DOMAIN d
    /\ d[key].visible_at <= now_secs * SecMs
    /\ now_secs - d[key].updated_at < 1

RateExceeded(d, key, now_secs) ==
    /\ key \in DOMAIN d
    /\ now_secs - d[key].updated_at < 1

\* The delays gen_range can draw.
Delays(c) ==
    IF c.consistency_bound_max > 0
    THEN c.consistency_bound_min .. c.consistency_bound_max
    ELSE {0}

StoredValue(value, visible_at, updated_at) ==
    [value |-> value, visible_at |-> visible_at, updated_at |-> updated_at]

\* db.put: overwrite.
Put(d, key, sv) == [k \in DOMAIN d \cup {key} |-> IF k = key THEN sv ELSE d[k]]

\* Mutant: the delay is added as seconds.
MutVisibleAtSeconds(now_millis, delay_ms) == now_millis + delay_ms * SecMs

\* visible_at of a write.
VisibleAt(now_millis, delay_ms) == now_millis + delay_ms

\* Mutant: an entry is visible only after its visible_at.
MutVisibleStrict(sv, t) == sv.visible_at < t

\* The visibility gate.
Visible(sv, t) == sv.visible_at <= t

\* Mutant: the limiter is asked before the sizes are looked at.
MutSetResultLimiterFirst(d, c, key, value, now_millis, delay_ms) ==
    IF RateExceeded(d, key, NowSecs(now_millis))
    THEN [db |-> d, resp |-> Err("UpdateRateExceeded")]
    ELSE IF KeyTooLarge(key) THEN [db |-> d, resp |-> Err("KeyTooLarge")]
    ELSE IF ValueTooLarge(value) THEN [db |-> d, resp |-> Err("ValueTooLarge")]
    ELSE [db |-> Put(d, key, StoredValue(value, VisibleAt(now_millis, delay_ms),
                                         NowSecs(now_millis))),
          resp |-> Ok(<<>>)]

\* Mutant: a rate-limited attempt stamps the stored entry anew.
MutSetResultRestamps(d, c, key, value, now_millis, delay_ms) ==
    IF KeyTooLarge(key) THEN [db |-> d, resp |-> Err("KeyTooLarge")]
    ELSE IF ValueTooLarge(value) THEN [db |-> d, resp |-> Err("ValueTooLarge")]
    ELSE IF RateExceeded(d, key, NowSecs(now_millis))
         THEN [db |-> Put(d, key, StoredValue(d[key].value,
                                              VisibleAt(now_millis, delay_ms),
                                              NowSecs(now_millis) + 1)),
               resp |-> Err("UpdateRateExceeded")]
    ELSE [db |-> Put(d, key, StoredValue(value, VisibleAt(now_millis, delay_ms),
                                         NowSecs(now_millis))),
          resp |-> Ok(<<>>)]

\* Mutant: an overwrite that is not visible at once leaves the old value
\* readable.
MutSetResultKeepsOld(d, c, key, value, now_millis, delay_ms) ==
    IF KeyTooLarge(key) THEN [db |-> d, resp |-> Err("KeyTooLarge")]
    ELSE IF ValueTooLarge(value) THEN [db |-> d, resp |-> Err("ValueTooLarge")]
    ELSE IF RateExceeded(d, key, NowSecs(now_millis))
         THEN [db |-> d, resp |-> Err("UpdateRateExceeded")]
    ELSE [db |-> Put(d, key,
                     IF key \in DOMAIN d /\ delay_ms > 0
                     THEN StoredValue(d[key].value, d[key].visible_at,
                                      NowSecs(now_millis))
                     ELSE StoredValue(value, VisibleAt(now_millis, delay_ms),
                                      NowSecs(now_millis))),
          resp |-> Ok(<<>>)]

\* set: the response and the database it leaves, for the delay drawn.
SetResult(d, c, key, value, now_millis, delay_ms) ==
    IF KeyTooLarge(key) THEN [db |-> d, resp |-> Err("KeyTooLarge")]
    ELSE IF ValueTooLarge(value) THEN [db |-> d, resp |-> Err("ValueTooLarge")]
    ELSE IF RateExceeded(d, key, NowSecs(now_millis))
         THEN [db |-> d, resp |-> Err("UpdateRateExceeded")]
    ELSE [db |-> Put(d, key, StoredValue(value, VisibleAt(now_millis, delay_ms),
                                         NowSecs(now_millis))),
          resp |-> Ok(<<>>)]

\* set, up to its read of the store: the size checks, the clock, the read
\* and the limiter.  It ends with the error, or with the entry it will put.
SetCheckResult(d, key, value, now_millis, delay_ms) ==
    IF KeyTooLarge(key) THEN [resp |-> Err("KeyTooLarge"), entry |-> None]
    ELSE IF ValueTooLarge(value) THEN [resp |-> Err("ValueTooLarge"), entry |-> None]
    ELSE IF RateExceeded(d, key, NowSecs(now_millis))
         THEN [resp |-> Err("UpdateRateExceeded"), entry |-> None]
    ELSE [resp |-> Ok(<<>>),
          entry |-> Some(StoredValue(value, VisibleAt(now_millis, delay_ms),
                                     NowSecs(now_millis)))]

\* Mutant: the put looks at the store again and gives way to an entry of the
\* same second.
MutSetPutResultChecksAgain(d, key, entry) ==
    IF RateExceeded(d, key, entry.updated_at)
    THEN [db |-> d, resp |-> Err("UpdateRateExceeded")]
    ELSE [db |-> Put(d, key, entry), resp |-> Ok(<<>>)]

\* set, from its put on: the entry built from the earlier read is written
\* over whatever the store holds by now.
SetPutResult(d, key, entry) == [db |-> Put(d, key, entry), resp |-> Ok(<<>>)]

\* Mutant: get answers with whatever is stored.
MutGetResultNoGate(d, key, now_millis) ==
    IF key \in DOMAIN d
    THEN Ok(<<[value |-> Base64Encode(d[key].value)]>>)
    ELSE Err("NotFound")

\* Mutant: a key that is not visible yet gets an answer of its own.
MutGetResultTooEarly(d, key, now_millis) ==
    IF key \in DOMAIN d
    THEN IF Visible(d[key], now_millis)
         THEN Ok(<<[value |-> Base64Encode(d[key].value)]>>)
         ELSE [status |-> 404, error |-> "NotVisible", body |-> <<>>]
    ELSE Err("NotFound")

\* get: the response.
GetResult(d, key, now_millis) ==
    IF key \in DOMAIN d
    THEN IF Visible(d[key], now_millis)
         THEN Ok(<<[value |-> Base64Encode(d[key].value)]>>)
         ELSE Err("NotFound")
    ELSE Err("NotFound")

\* The keys of a set in ascending byte order.
RECURSIVE SortKeys(_)
SortKeys(S) ==
    IF S = {} THEN <<>>
    ELSE LET m == CHOOSE k \in S : \A o \in S : BytesLe(k, o)
         IN  <<m>> \o SortKeys(S \ {m})

\* db.iterator(mode): IteratorMode::Start, or From(start, Forward).
Iterator(d, start) ==
    IF start = None THEN SortKeys(DOMAIN d)
    ELSE SortKeys({k \in DOMAIN d : BytesLe(start[1], k)})

\* Mutant: the end key is included.
MutPastEndInclusive(endk, key) == endk # None /\ BytesLt(endk[1], key)

\* The end test of query: the key is byte-wise >= end.
PastEnd(endk, key) == endk # None /\ BytesLe(endk[1], key)

\* Mutant: an entry that is not yet visible ends the iteration.
MutOnInvisibleStop(rest, acc) == acc

\* What query does with an entry that is not yet visible: it goes on with the
\* rest of the iteration.
OnInvisible(rest, acc) == rest

\* The loop of query over the iterator from item i on.  `limit` absent stands
\* for usize::MAX, which results.len() never reaches.
RECURSIVE QueryLoop(_, _, _, _, _, _, _)
QueryLoop(d, iter, i, acc, endk, limit, now_millis) ==
    IF i > Len(iter) THEN acc
    ELSE IF limit # None /\ Len(acc.results) >= limit[1] THEN acc
    ELSE LET key == iter[i]
             sv == d[key]
         IN  IF Visible(sv, now_millis)
             THEN IF PastEnd(endk, key)
                  THEN acc
                  ELSE QueryLoop(d, iter, i + 1,
                           [acc EXCEPT !.results = Append(@,
                               [key |-> key, value |-> Base64Encode(sv.value)])],
                           endk, limit, now_millis)
             ELSE OnInvisible(QueryLoop(d, iter, i + 1,
                                        [acc EXCEPT !.skipped = @ \cup {key}],
                                        endk, limit, now_millis),
                              [acc EXCEPT !.skipped = @ \cup {key}])

\* query: the items returned and the keys passed over as not yet visible.
QueryRun(d, start, endk, limit, now_millis) ==
    QueryLoop(d, Iterator(d, start), 1, [results |-> <<>>, skipped |-> {}],
              endk, limit, now_millis)

----------------------------------------------------------------------------
(* Authentication middleware: src/simulator/src/server/auth.rs *)

BearerPrefix == <<66, 101, 97, 114, 101, 114, 32>>      \* "Bearer "

\* HeaderValue::to_str: a str only when every byte is visible ASCII.
IsVisibleAscii(b) == (b >= 32 /\ b < 127) \/ b = 9
ToStr(hv) == IF \A i \in 1..Len(hv) : IsVisibleAscii(hv[i]) THEN Some(hv) ELSE None

\* The header branch: Authorization present, a str, "Bearer " stripped, equal
\* to the configured token.
HeaderAuthorized(header, token) ==
    /\ header # None
    /\ ToStr(header[1]) # None
    /\ LET sp == StripPrefix(ToStr(header[1])[1], BearerPrefix)
       IN  sp.some /\ sp.rest = token

IsHex(b) == b \in 48..57 \/ b \in 65..70 \/ b \in 97..102
HexVal(b) == IF b <= 57 THEN b - 48 ELSE IF b <= 70 THEN b - 55 ELSE b - 87

\* form_urlencoded::parse decodes each value: '+' is a space, %XX is the byte
\* XX, anything else stands for itself.  (Tokens here are valid UTF-8, so the
\* lossy UTF-8 conversion that follows changes nothing.)
RECURSIVE PercentDecode(_)
PercentDecode(raw) ==
    IF Len(raw) = 0 THEN <<>>
    ELSE IF raw[1] = 43 THEN <<32>> \o PercentDecode(Tail(raw))
    ELSE IF raw[1] = 37 /\ Len(raw) >= 3 /\ IsHex(raw[2]) /\ IsHex(raw[3])
         THEN <<16 * HexVal(raw[2]) + HexVal(raw[3])>>
              \o PercentDecode(SubSeq(raw, 4, Len(raw)))
    ELSE <<raw[1]>> \o PercentDecode(Tail(raw))

\* form_urlencoded::parse(..).find(|(key, _)| key == name): the decoded value
\* of the first pair of that name.  A query is a sequence of <<name, raw>>.
FindParam(query, name) ==
    LET hits == {i \in 1..Len(query) : query[i][1] = name}
    IN  IF hits = {} THEN None
        ELSE Some(PercentDecode(query[CHOOSE i \in hits : \A j \in hits : i <= j][2]))

\* The query branch.
QueryAuthorized(query, token) ==
    LET t == FindParam(query, "token")
    IN  t # None /\ t[1] = token

\* A gate whose public bypass forgets the method.
MutMiddlewareAnyMethod(c, method, header, query) ==
    \/ HeaderAuthorized(header, c.token)
    \/ QueryAuthorized(query, c.token)
    \/ c.allow_public_access

\* middleware: TRUE when the request is passed to next.run, FALSE when it is
\* answered Err(StatusCode::UNAUTHORIZED).
Middleware(c, method, header, query) ==
    LET authorized == HeaderAuthorized(header, c.token)
                      \/ QueryAuthorized(query, c.token)
    IN  IF authorized THEN TRUE
        ELSE IF c.allow_public_access /\ method = "GET" THEN TRUE
        ELSE FALSE

\* Err(StatusCode::UNAUTHORIZED): the bare status, with an empty body.
Unauthorized == [status |-> 401, error |-> "", body |-> <<>>]

----------------------------------------------------------------------------
(* ADB overlay: src/simulator/src/server/store/adb.rs *)

KEY_NAMESPACE_PREFIX == 0
POS_NAMESPACE_PREFIX == 1
DIGEST_SIZE == 32

\* A byte sequence as a key of the database (a sequence of runs).
\* The recursion halves the sequence so that long keys stay shallow.
RECURSIVE ToRuns(_)
ToRuns(s) ==
    IF Len(s) = 0 THEN <<>>
    ELSE IF Len(s) = 1 THEN <<[b |-> s[1], n |-> 1]>>
    ELSE LET h == Len(s) \div 2
             l == ToRuns(SubSeq(s, 1, h))
             r == ToRuns(SubSeq(s, h + 1, Len(s)))
         IN  IF l[Len(l)].b = r[1].b
             THEN SubSeq(l, 1, Len(l) - 1)
                    \o <<[b |-> r[1].b, n |-> l[Len(l)].n + r[1].n]>>
                    \o Tail(r)
             ELSE l \o r

\* u64::to_be_bytes and the little-endian u64 of bincode's fixed-width integers.
U64Be(n) ==
    <<0, 0, 0, 0, (n \div 16777216) % 256, (n \div 65536) % 256,
      (n \div 256) % 256, n % 256>>
U64Le(n) ==
    <<n % 256, (n \div 256) % 256, (n \div 65536) % 256,
      (n \div 16777216) % 256, 0, 0, 0, 0>>

\* The i-th byte of a value, and the n bytes of it that start at byte from.
ByteAt(v, i) == IF i <= Len(v.data) THEN v.data[i] ELSE 0
Slice(v, from, n) ==
    LET d == SubSeq(v.data, from, Min(from + n - 1, Len(v.data)))
    IN  [data |-> d, zeros |-> n - Len(d)]

\* A little-endian u64 read at byte from: None when it does not fit the
\* integers explored.
ReadU64Le(v, from) ==
    IF \E i \in 4..7 : ByteAt(v, from + i) # 0 THEN None
    ELSE IF ByteAt(v, from + 3) >= 128 THEN None
    ELSE Some(ByteAt(v, from) + 256 * ByteAt(v, from + 1)
              + 65536 * ByteAt(v, from + 2) + 16777216 * ByteAt(v, from + 3))

RECURSIVE Zeros(_)
Zeros(n) == IF n = 0 THEN <<>> ELSE <<0>> \o Zeros(n - 1)

\* A serialization that loses the position.
MutValueSerializeNoPosition(value, position) ==
    [data |-> U64Le(ValLen(value)) \o value.data \o Zeros(value.zeros)
              \o U64Le(0),
     zeros |-> 0]

\* Value::serialize: bincode writes the length of the byte vector, its bytes,
\* then the position.  The zero tail of the value joins the data.
ValueSerialize(value, position) ==
    [data |-> U64Le(ValLen(value)) \o value.data \o Zeros(value.zeros)
              \o U64Le(position),
     zeros |-> 0]

\* Value::deserialize: None stands for a bincode error.
ValueDeserialize(bytes) ==
    IF ValLen(bytes) < 8 \/ ReadU64Le(bytes, 1) = None THEN None
    ELSE LET n == ReadU64Le(bytes, 1)[1]
         IN  IF ValLen(bytes) < 16 + n \/ ReadU64Le(bytes, 9 + n) = None THEN None
             ELSE Some([value |-> Slice(bytes, 9, n),
                        position |-> ReadU64Le(bytes, 9 + n)[1]])

\* An entry that becomes visible a millisecond after it is written.
MutEntryNewVisibleLater(value, now_millis) ==
    StoredValue(value, now_millis + 1, now_millis \div SecMs)

\* Entry::new: visible at once, stamped with the current second.
EntryNew(value, now_millis) == StoredValue(value, 0, now_millis \div SecMs)

\* Mutant: missing proof data is reported as a missing key.
MutStoreStatusOfMissingIs404(err) ==
    CASE err = "KeyTooLarge" -> 413
      [] err = "ValueTooLarge" -> 413
      [] err = "UpdateRateExceeded" -> 429
      [] err = "NotFound" -> 404
      [] err = "InvalidParameter" -> 400
      [] err = "InvalidBody" -> 400
      [] err = "MissingData" -> 404
      [] err = "Db" -> 500
      [] err = "Bincode" -> 500
      [] err = "Internal" -> 500

\* Error::into_response of the store module.
StoreStatusOf(err) ==
    CASE err = "KeyTooLarge" -> 413
      [] err = "ValueTooLarge" -> 413
      [] err = "UpdateRateExceeded" -> 429
      [] err = "NotFound" -> 404
      [] err = "InvalidParameter" -> 400
      [] err = "InvalidBody" -> 400
      [] err = "MissingData" -> 500
      [] err = "Db" -> 500
      [] err = "Bincode" -> 500
      [] err = "Internal" -> 500

StoreErr(kind) == [status |-> StoreStatusOf(kind), error |-> kind, body |-> <<>>]

\* A handler that panics: the connection is dropped without a response.
Panicked == [status |-> 0, error |-> "panic", body |-> <<>>]

\* decode_base64_param
DecodeBase64Param(text) == IF ValidText(text) THEN Some(DecodeText(text)) ELSE None

KeyDbKey(decoded_key) == ToRuns(<<KEY_NAMESPACE_PREFIX>> \o decoded_key)
NodeKey(position) == ToRuns(<<POS_NAMESPACE_PREFIX>> \o U64Be(position))

\* Mutant: set_key has the limiter of the KV set.
MutSetKeyResultRateLimited(d, keytext, position, value, now_millis) ==
    LET decoded_key == DecodeBase64Param(keytext)
    IN  IF decoded_key = None
        THEN [db |-> d, resp |-> StoreErr("InvalidParameter")]
        ELSE IF RateExceeded(d, KeyDbKey(decoded_key[1]), NowSecs(now_millis))
        THEN [db |-> d, resp |-> StoreErr("UpdateRateExceeded")]
        ELSE [db |-> Put(d, KeyDbKey(decoded_key[1]),
                         EntryNew(ValueSerialize(value, position), now_millis)),
              resp |-> Ok(<<>>)]

\* A set_key that stores under the key's own bytes.
MutSetKeyResultNoPrefix(d, keytext, position, value, now_millis) ==
    LET decoded_key == DecodeBase64Param(keytext)
    IN  IF decoded_key = None
        THEN [db |-> d, resp |-> StoreErr("InvalidParameter")]
        ELSE [db |-> Put(d, ToRuns(decoded_key[1]),
                         EntryNew(ValueSerialize(value, position), now_millis)),
              resp |-> Ok(<<>>)]

\* set_key
SetKeyResult(d, keytext, position, value, now_millis) ==
    LET decoded_key == DecodeBase64Param(keytext)
    IN  IF decoded_key = None
        THEN [db |-> d, resp |-> StoreErr("InvalidParameter")]
        ELSE [db |-> Put(d, KeyDbKey(decoded_key[1]),
                         EntryNew(ValueSerialize(value, position), now_millis)),
              resp |-> Ok(<<>>)]

\* A set_node_digest that refuses only the bodies that are too long.
MutSetNodeDigestResultAtMost(d, position, value, now_millis) ==
    IF ValLen(value) > DIGEST_SIZE
    THEN [db |-> d, resp |-> StoreErr("InvalidBody")]
    ELSE [db |-> Put(d, NodeKey(position), EntryNew(value, now_millis)),
          resp |-> Ok(<<>>)]

\* Mutant: the digest is stored in the key namespace.
MutSetNodeDigestResultKeyNamespace(d, position, value, now_millis) ==
    IF ValLen(value) # DIGEST_SIZE
    THEN [db |-> d, resp |-> StoreErr("InvalidBody")]
    ELSE [db |-> Put(d, KeyDbKey(U64Be(position)), EntryNew(value, now_millis)),
          resp |-> Ok(<<>>)]

\* set_node_digest
SetNodeDigestResult(d, position, value, now_millis) ==
    IF ValLen(value) # DIGEST_SIZE
    THEN [db |-> d, resp |-> StoreErr("InvalidBody")]
    ELSE [db |-> Put(d, NodeKey(position), EntryNew(value, now_millis)),
          resp |-> Ok(<<>>)]

\* u64::MAX >> size.leading_zeros(): the all-ones number as wide as size.
RECURSIVE AllOnes(_)
AllOnes(size) == IF size = 0 THEN 0 ELSE 2 * AllOnes(size \div 2) + 1

RECURSIVE Log2(_)
Log2(n) == IF n <= 1 THEN 0 ELSE 1 + Log2(n \div 2)

\* PeakIterator: the peaks <<position, height>> of an MMR of that size, from
\* the tallest tree to the shortest.
RECURSIVE PeakIter(_, _, _)
PeakIter(size, node_pos, two_h) ==
    IF two_h <= 1 THEN <<>>
    ELSE IF node_pos < size
         THEN <<<<node_pos, Log2(two_h) - 1>>>>
              \o PeakIter(size, node_pos + two_h - 1, two_h)
         ELSE PeakIter(size, node_pos - (two_h \div 2), two_h \div 2)

Peaks(size) ==
    IF size = 0 THEN <<>>
    ELSE PeakIter(size, AllOnes(size) - 1, AllOnes(size) + 1)

\* PathIterator: the siblings met on the way from a peak down to a leaf.
RECURSIVE PathIter(_, _, _)
PathIter(leaf_pos, node_pos, two_h) ==
    IF two_h <= 1 THEN <<>>
    ELSE LET left_pos == node_pos - two_h
             right_pos == left_pos + two_h - 1
         IN  IF left_pos < leaf_pos
             THEN <<left_pos>> \o PathIter(leaf_pos, right_pos, two_h \div 2)
             ELSE <<right_pos>> \o PathIter(leaf_pos, left_pos, two_h \div 2)

RECURSIVE Pow2(_)
Pow2(h) == IF h = 0 THEN 1 ELSE 2 * Pow2(h - 1)

\* Proof::nodes_required_for_range_proof(size, pos, pos): the peaks of the
\* trees that do not hold the element, then the siblings on its path.  None
\* when no tree holds the element (the function's assertion fails).
NodesRequired(size, pos) ==
    LET peaks == Peaks(size)
        holds == {i \in 1..Len(peaks) : peaks[i][1] >= pos}
    IN  IF holds = {} THEN None
        ELSE LET t == CHOOSE i \in holds : \A j \in holds : i <= j
                 others == SelectSeq(peaks, LAMBDA p : p # peaks[t])
             IN  Some([i \in 1..Len(others) |-> others[i][1]]
                      \o PathIter(pos, peaks[t][1], Pow2(peaks[t][2])))

\* A get that leaves out the digests it does not find.
MutAdbGetResultPartialProof(d, keytext, size) ==
    LET decoded_key == DecodeBase64Param(keytext)
    IN  IF decoded_key = None THEN StoreErr("InvalidParameter")
        ELSE IF KeyDbKey(decoded_key[1]) \notin DOMAIN d THEN StoreErr("NotFound")
        ELSE LET value == ValueDeserialize(d[KeyDbKey(decoded_key[1])].value)
             IN  IF value = None THEN StoreErr("Bincode")
                 ELSE LET proof_indices == NodesRequired(size, value[1].position)
                      IN  IF proof_indices = None THEN Panicked
                          ELSE LET found == SelectSeq(proof_indices[1],
                                              LAMBDA n : NodeKey(n) \in DOMAIN d)
                               IN  Ok([value |-> value[1].value,
                                       position |-> value[1].position,
                                       proof_data |->
                                         [i \in 1..Len(found) |->
                                            d[NodeKey(found[i])].value]])

\* Mutant: the digests are put together from the last required node to the
\* first.
MutAdbGetResultReversed(d, keytext, size) ==
    LET decoded_key == DecodeBase64Param(keytext)
    IN  IF decoded_key = None THEN StoreErr("InvalidParameter")
        ELSE IF KeyDbKey(decoded_key[1]) \notin DOMAIN d THEN StoreErr("NotFound")
        ELSE LET value == ValueDeserialize(d[KeyDbKey(decoded_key[1])].value)
             IN  IF value = None THEN StoreErr("Bincode")
                 ELSE LET proof_indices == NodesRequired(size, value[1].position)
                      IN  IF proof_indices = None THEN Panicked
                          ELSE LET idx == proof_indices[1]
                                   bad == {i \in 1..Len(idx) :
                                             \/ NodeKey(idx[i]) \notin DOMAIN d
                                             \/ ValLen(d[NodeKey(idx[i])].value)
                                                  # DIGEST_SIZE}
                                   first == CHOOSE i \in bad : \A j \in bad : i <= j
                               IN  IF bad = {}
                                   THEN Ok([value |-> value[1].value,
                                            position |-> value[1].position,
                                            proof_data |->
                                              [i \in 1..Len(idx) |->
                                                 d[NodeKey(idx[Len(idx) + 1 - i])].value]])
                                   ELSE IF NodeKey(idx[first]) \notin DOMAIN d
                                        THEN StoreErr("MissingData")
                                        ELSE StoreErr("Internal")

\* get: the value, its position and the digests of the proof.
AdbGetResult(d, keytext, size) ==
    LET decoded_key == DecodeBase64Param(keytext)
    IN  IF decoded_key = None THEN StoreErr("InvalidParameter")
        ELSE IF KeyDbKey(decoded_key[1]) \notin DOMAIN d THEN StoreErr("NotFound")
        ELSE LET value == ValueDeserialize(d[KeyDbKey(decoded_key[1])].value)
             IN  IF value = None THEN StoreErr("Bincode")
                 ELSE LET proof_indices == NodesRequired(size, value[1].position)
                      IN  IF proof_indices = None THEN Panicked
                          ELSE LET idx == proof_indices[1]
                                   bad == {i \in 1..Len(idx) :
                                             \/ NodeKey(idx[i]) \notin DOMAIN d
                                             \/ ValLen(d[NodeKey(idx[i])].value)
                                                  # DIGEST_SIZE}
                                   first == CHOOSE i \in bad : \A j \in bad : i <= j
                               IN  IF bad = {}
                                   THEN Ok([value |-> value[1].value,
                                            position |-> value[1].position,
                                            proof_data |->
                                              [i \in 1..Len(idx) |->
                                                 d[NodeKey(idx[i])].value]])
                                   ELSE IF NodeKey(idx[first]) \notin DOMAIN d
                                        THEN StoreErr("MissingData")
                                        ELSE StoreErr("Internal")

\* PeakIterator::next asserts, after each peak, that the peak's right sibling
\* is outside the MMR ("sibling shouldn't be in the MMR if MMR is valid"):
\* whether that fails for this size.
RECURSIVE PeakAssertFails(_, _, _)
PeakAssertFails(size, node_pos, two_h) ==
    IF two_h <= 1 THEN FALSE
    ELSE IF node_pos < size
         THEN \/ node_pos + two_h - 1 < size
              \/ PeakAssertFails(size, node_pos + two_h - 1, two_h)
         ELSE PeakAssertFails(size, node_pos - (two_h \div 2), two_h \div 2)

\* A size that no MMR has.
InvalidSize(size) ==
    size > 0 /\ PeakAssertFails(size, AllOnes(size) - 1, AllOnes(size) + 1)

\* get as the server answers it: for a size that no MMR has, the computation
\* of the proof's nodes either goes through or stops on the assertion,
\* depending on the library the server is built with.
AdbGetOutcomes(d, keytext, size) ==
    LET r == AdbGetResult(d, keytext, size)
    IN  IF InvalidSize(size)
           /\ r.error \notin {"InvalidParameter", "NotFound", "Bincode"}
        THEN {r, Panicked}
        ELSE {r}

----------------------------------------------------------------------------
(* Streams: src/simulator/src/server/stream/handlers.rs *)

CHANNEL_CAPACITY == 1024

\* The task holds a receiver of the topic's channel: it has subscribed and
\* has not left the loop.
Subscribed(s) == s.pc \in {"receiving", "rx_disabled", "socket_disabled"}

\* A channel that hands the newest message over first.
MutSendNewestFirst(ss, name, body) ==
    [i \in 1..Len(ss) |->
       IF ss[i].name = name /\ Subscribed(ss[i])
       THEN [ss[i] EXCEPT !.queue = <<body>> \o @]
       ELSE ss[i]]

\* tx.send: every receiver of the topic's channel gets the message; a
\* receiver whose backlog is full loses its oldest message and lags.
Send(ss, name, body) ==
    [i \in 1..Len(ss) |->
       IF ss[i].name = name /\ Subscribed(ss[i])
       THEN IF Len(ss[i].queue) >= CHANNEL_CAPACITY
            THEN [ss[i] EXCEPT !.queue = Append(Tail(@), body),
                               !.lagged = @ + 1]
            ELSE [ss[i] EXCEPT !.queue = Append(@, body)]
       ELSE ss[i]]

MessageTooLarge(body) == ValLen(body) > MAX_MESSAGE_SIZE

\* Error::into_response of the stream module.
StreamStatusOf(err) ==
    CASE err = "NameTooLarge" -> 413
      [] err = "MessageTooLarge" -> 413

StreamErr(kind) == [status |-> StreamStatusOf(kind), error |-> kind, body |-> <<>>]

\* A publish that reports a send with no receiver to the publisher.
MutPublishResultSendError(st, ss, name, body) ==
    IF MessageTooLarge(body)
    THEN [streams |-> st, subs |-> ss,
          resp |-> [status |-> 413, error |-> "", body |-> <<>>]]
    ELSE IF \E i \in 1..Len(ss) : ss[i].name = name /\ Subscribed(ss[i])
    THEN [streams |-> st \cup {name}, subs |-> Send(ss, name, body),
          resp |-> Ok(<<>>)]
    ELSE [streams |-> st \cup {name}, subs |-> ss,
          resp |-> [status |-> 500, error |-> "", body |-> <<>>]]

\* publish: the size check, then the send; the topic is created if absent.
PublishResult(st, ss, name, body) ==
    IF MessageTooLarge(body)
    THEN [streams |-> st, subs |-> ss,
          resp |-> [status |-> 413, error |-> "", body |-> <<>>]]
    ELSE [streams |-> st \cup {name}, subs |-> Send(ss, name, body),
          resp |-> Ok(<<>>)]

\* A subscribe handler that asks for the token whatever the configuration.
MutSubscribeAuthorizedTokenOnly(c, header, query) ==
    IF header # None THEN HeaderAuthorized(header, c.token)
    ELSE LET t == FindParam(query, "auth_token")
         IN  t # None /\ t[1] = c.token

\* subscribe: the handler's own check of the credentials.
SubscribeAuthorized(c, header, query) ==
    IF c.allow_public_access THEN TRUE
    ELSE IF header # None THEN HeaderAuthorized(header, c.token)
    ELSE LET t == FindParam(query, "auth_token")
         IN  t # None /\ t[1] = c.token

\* (StatusCode::UNAUTHORIZED, "Unauthorized")
SubscribeRejected == [status |-> 401, error |-> "Unauthorized", body |-> <<>>]
\* ws.on_upgrade: 101 Switching Protocols
Upgraded == [status |-> 101, error |-> "", body |-> <<>>]

\* The task of an upgraded connection before handle_socket has subscribed.
\* unexpected: the task has logged "received unexpected message from client".
\* closing: the client's Close frame has arrived and is the next frame that
\* socket.next() yields.
\* chan: the channel the task's receiver belongs to, where channels are told
\* apart.
NewSocket(name) ==
    [name |-> name, pc |-> "upgraded", queue |-> <<>>, lagged |-> 0,
     sent |-> <<>>, joined |-> 0, unexpected |-> FALSE, closing |-> FALSE,
     chan |-> None]

\* The task after the loop: the receiver is dropped with what it held.
Closed(s) == [s EXCEPT !.pc = "closed", !.queue = <<>>, !.lagged = 0]

\* The bodies accepted for a topic so far.
Log(p, name) == IF name \in DOMAIN p THEN p[name] ELSE <<>>

----------------------------------------------------------------------------
(* Inputs explored *)

AsciiToken == <<116, 49>>           \* "t1"
Utf8Token == <<195, 169>>           \* "e" with acute accent, in UTF-8
WrongToken == <<116, 50>>           \* "t2"

KeyA == Rep(97, 1)                     \* "a"
KeyAtLimit == Rep(97, MAX_KEY_SIZE) \* "aaa...a", 512 bytes
KeyOverLimit == Rep(97, MAX_KEY_SIZE + 1)
KeyB == Rep(98, 1)                     \* "b"
KvKeys == {KeyA, KeyAtLimit, KeyB}

Value1 == [data |-> <<118, 49, 33>>, zeros |-> 0]
ValueAtLimit == [data |-> <<255, 16, 1>>, zeros |-> MAX_VALUE_SIZE - 3]
ValueOverLimit == [data |-> <<255, 16, 1>>, zeros |-> MAX_VALUE_SIZE - 2]
KvValues == {Value1, ValueAtLimit, ValueOverLimit}

\* The token as a client writes it in a URL query.
UrlEncoded(t) == IF t = Utf8Token THEN <<37, 67, 51, 37, 65, 57>> ELSE t

LowerBearerPrefix == <<98, 101, 97, 114, 101, 114, 32>>   \* "bearer "

\* Authorization headers: none, the token, other tokens, the token without
\* the scheme, the scheme in lower case.
AuthHeaders(c) ==
    {None, Some(c.token), Some(LowerBearerPrefix \o c.token)}
    \cup {Some(BearerPrefix \o t) : t \in {AsciiToken, Utf8Token, WrongToken}}

\* URL queries: none, token= with the token or another one, token= twice,
\* and auth_token= with the token.
AuthQueries(c) ==
    {<<>>,
     <<<<"token", UrlEncoded(c.token)>>>>,
     <<<<"token", WrongToken>>>>,
     <<<<"token", WrongToken>>, <<"token", UrlEncoded(c.token)>>>>,
     <<<<"auth_token", UrlEncoded(c.token)>>>>}

\* Credentials: a header alone, a query alone, and a header that fails next
\* to a query that carries the token.
Creds(c) ==
    {[header |-> h, query |-> <<>>] : h \in AuthHeaders(c)}
    \cup {[header |-> None, query |-> q] : q \in AuthQueries(c)}
    \cup {[header |-> Some(BearerPrefix \o WrongToken), query |-> <<<<n, UrlEncoded(c.token)>>>>] :
            n \in {"token", "auth_token"}}

AdbKeyText == EncodeData(<<107, 101, 121>>)     \* base64 of "key"
Digest1 == [data |-> <<1, 1, 1>>, zeros |-> DIGEST_SIZE - 3]
Digest2 == [data |-> <<2, 2, 2>>, zeros |-> DIGEST_SIZE - 3]
DigestShort == [data |-> <<3>>, zeros |-> DIGEST_SIZE - 2]      \* 31 bytes
DigestLong == [data |-> <<4>>, zeros |-> DIGEST_SIZE]            \* 33 bytes
NoBody == [data |-> <<>>, zeros |-> 0]
AdbSizes == {3}
Topic1 == Rep(115, 1)                           \* "s"
Topic2 == Rep(116, 1)                           \* "t"
StreamTopics == {Topic1, Topic2}
Hello == [data |-> <<104, 105, 33>>, zeros |-> 0]   \* "hi!"
StreamBodies == {Value1, Hello}
Frames == {"Close", "Other", "None"}

\* The credentials of a client built with the configured token.
ClientCred(c) == [header |-> Some(BearerPrefix \o c.token), query |-> <<>>]

\* Clock advances between requests: a millisecond, or just under a second.
TickSteps == {1, SecMs - 1}

\* main: the bounds are accepted only when min <= max.
Configs(tokens, public) ==
    {[consistency_bound_min |-> mn, consistency_bound_max |-> mx,
      token |-> t, allow_public_access |-> p] :
        mn \in 0..MaxBound, mx \in 0..MaxBound, t \in tokens, p \in public}
    \ {c \in [consistency_bound_min : 0..MaxBound,
              consistency_bound_max : 0..MaxBound,
              token : tokens, allow_public_access : public] :
          c.consistency_bound_min > c.consistency_bound_max}

NoRequest == [op |-> "none", method |-> "", header |-> None, query |-> <<>>,
              args |-> <<>>, at |-> 0]
NoResponse == [status |-> 0, error |-> "", body |-> <<>>]

EmptyMap == [k \in {} |-> 0]

InitWith(configs) ==
    /\ now = 0
    /\ cfg \in configs
    /\ db = EmptyMap
    /\ streams = {}
    /\ subs = <<>>
    /\ published = EmptyMap
    /\ req = NoRequest
    /\ resp = NoResponse
    /\ written = EmptyMap
    /\ skipped = {}
    /\ ticks = 0
    /\ nwrites = 0
    /\ calls = <<>>
    /\ chans = EmptyMap

----------------------------------------------------------------------------
(* Actions *)

\* The wall clock advances.
Tick(d) ==
    /\ ticks < MaxTicks
    /\ now' = now + d
    /\ ticks' = ticks + 1
    /\ UNCHANGED <<cfg, db, streams, subs, published, req, resp, written, skipped,
                 nwrites, calls, chans>>

\* POST /store/kv/{key}
KvSet(cred, key, value) ==
    /\ req' = Request("kv_set", "POST", cred.header, cred.query, <<key, value>>)
    /\ IF Middleware(cfg, "POST", cred.header, cred.query)
       THEN \E delay_ms \in Delays(cfg) :
              LET r == SetResult(db, cfg, key, value, now, delay_ms)
                  ok == r.resp.status = 200
              IN  /\ ok => nwrites < MaxWrites
                  /\ db' = r.db
                  /\ resp' = r.resp
                  /\ nwrites' = IF ok THEN nwrites + 1 ELSE nwrites
                  /\ written' = IF ok
                                THEN Put(written, key, [at |-> now, value |-> value])
                                ELSE written
                  /\ skipped' = IF ok THEN skipped \ {key} ELSE skipped
       ELSE /\ resp' = Unauthorized
            /\ UNCHANGED <<db, nwrites, written, skipped>>
    /\ UNCHANGED <<now, cfg, streams, subs, published, ticks, calls, chans>>

\* GET /store/kv/{key}
KvGet(cred, method, key) ==
    /\ req' = Request("kv_get", method, cred.header, cred.query, <<key>>)
    /\ resp' = IF Middleware(cfg, method, cred.header, cred.query)
               THEN GetResult(db, key, now)
               ELSE Unauthorized
    /\ UNCHANGED <<now, cfg, db, streams, subs, published, written, skipped, ticks,
                 nwrites, calls, chans>>

\* GET /store/kv?start=&end=&limit=
KvQuery(cred, method, start, endk, limit) ==
    /\ req' = Request("kv_query", method, cred.header, cred.query,
                      <<start, endk, limit>>)
    /\ IF Middleware(cfg, method, cred.header, cred.query)
       THEN LET r == QueryRun(db, start, endk, limit, now)
            IN  /\ resp' = Ok(r.results)
                /\ skipped' = skipped \cup r.skipped
       ELSE /\ resp' = Unauthorized
            /\ UNCHANGED skipped
    /\ UNCHANGED <<now, cfg, db, streams, subs, published, written, ticks, nwrites, calls, chans>>

\* POST /store/adb/set_key?key=&position=
AdbSetKey(cred, keytext, position, value) ==
    /\ req' = Request("adb_set_key", "POST", cred.header, cred.query,
                      <<keytext, position, value>>)
    /\ IF Middleware(cfg, "POST", cred.header, cred.query)
       THEN LET r == SetKeyResult(db, keytext, position, value, now)
            IN  /\ db' = r.db
                /\ resp' = r.resp
       ELSE /\ resp' = Unauthorized
            /\ UNCHANGED db
    /\ UNCHANGED <<now, cfg, streams, subs, published, written, skipped, ticks,
                 nwrites, calls, chans>>

\* POST /store/adb/set_node_digest?position=
AdbSetNodeDigest(cred, position, value) ==
    /\ req' = Request("adb_set_node_digest", "POST", cred.header, cred.query,
                      <<position, value>>)
    /\ IF Middleware(cfg, "POST", cred.header, cred.query)
       THEN LET r == SetNodeDigestResult(db, position, value, now)
            IN  /\ db' = r.db
                /\ resp' = r.resp
       ELSE /\ resp' = Unauthorized
            /\ UNCHANGED db
    /\ UNCHANGED <<now, cfg, streams, subs, published, written, skipped, ticks,
                 nwrites, calls, chans>>

\* GET or POST /store/adb?key=&size=
AdbGet(cred, method, keytext, size) ==
    /\ req' = Request("adb_get", method, cred.header, cred.query,
                      <<keytext, size>>)
    /\ resp' \in IF Middleware(cfg, method, cred.header, cred.query)
                  THEN AdbGetOutcomes(db, keytext, size)
                  ELSE {Unauthorized}
    /\ UNCHANGED <<now, cfg, db, streams, subs, published, written, skipped, ticks,
                 nwrites, calls, chans>>

\* Mutant: the message is sent before the gate is asked.
MutPublishBeforeGate(cred, name, body) ==
    /\ req' = Request("publish", "POST", cred.header, cred.query, <<name, body>>)
    /\ LET r == PublishResult(streams, subs, name, body)
       IN  /\ streams' = r.streams
           /\ subs' = r.subs
           /\ resp' = IF Middleware(cfg, "POST", cred.header, cred.query)
                      THEN r.resp
                      ELSE Unauthorized
           /\ published' = IF r.resp.status = 200
                           THEN Put(published, name, Append(Log(published, name), body))
                           ELSE published
    /\ UNCHANGED <<now, cfg, db, written, skipped, ticks, nwrites, calls, chans>>

\* POST /stream/{name}
Publish(cred, name, body) ==
    /\ req' = Request("publish", "POST", cred.header, cred.query, <<name, body>>)
    /\ IF Middleware(cfg, "POST", cred.header, cred.query)
       THEN LET r == PublishResult(streams, subs, name, body)
            IN  /\ streams' = r.streams
                /\ subs' = r.subs
                /\ resp' = r.resp
                /\ published' = IF r.resp.status = 200
                                THEN Put(published, name, Append(Log(published, name), body))
                                ELSE published
       ELSE /\ resp' = Unauthorized
            /\ UNCHANGED <<streams, subs, published>>
    /\ UNCHANGED <<now, cfg, db, written, skipped, ticks, nwrites, calls, chans>>

\* GET /stream/{name} with the WebSocket upgrade headers
Subscribe(cred, name) ==
    /\ req' = Request("subscribe", "GET", cred.header, cred.query, <<name>>)
    /\ IF Middleware(cfg, "GET", cred.header, cred.query)
       THEN IF SubscribeAuthorized(cfg, cred.header, cred.query)
            THEN /\ Len(subs) < MaxSubs
                 /\ subs' = Append(subs, NewSocket(name))
                 /\ resp' = Upgraded
            ELSE /\ resp' = SubscribeRejected
                 /\ UNCHANGED subs
       ELSE /\ resp' = Unauthorized
            /\ UNCHANGED subs
    /\ UNCHANGED <<now, cfg, db, streams, published, written, skipped, ticks,
                 nwrites, calls, chans>>

\* A subscription that replays what the topic got before it.
MutSocketSubscribeReplay(i) ==
    /\ i \in 1..Len(subs)
    /\ subs[i].pc = "upgraded"
    /\ streams' = streams \cup {subs[i].name}
    /\ subs' = [subs EXCEPT ![i].pc = "receiving",
                            ![i].queue = Log(published, subs[i].name),
                            ![i].joined = Len(Log(published, subs[i].name))]
    /\ UNCHANGED <<now, cfg, db, published, req, resp, written, skipped, ticks,
                   nwrites, calls, chans>>

\* handle_socket, up to the subscription: the topic is created if absent and
\* the connection becomes a receiver of its channel from this moment on.
SocketSubscribe(i) ==
    /\ i \in 1..Len(subs)
    /\ subs[i].pc = "upgraded"
    /\ streams' = streams \cup {subs[i].name}
    /\ subs' = [subs EXCEPT ![i].pc = "receiving",
                            ![i].joined = Len(Log(published, subs[i].name))]
    /\ UNCHANGED <<now, cfg, db, published, req, resp, written, skipped, ticks,
                   nwrites, calls, chans>>

\* A task that takes its topic out of the registry when its send fails.
MutForwardRemovesTopic(i, send_ok) ==
    /\ i \in 1..Len(subs)
    /\ subs[i].pc \in {"receiving", "socket_disabled"}
    /\ subs[i].lagged = 0
    /\ subs[i].queue # <<>>
    /\ subs' = [subs EXCEPT ![i] =
                  IF send_ok
                  THEN [@ EXCEPT !.pc = "receiving",
                                 !.queue = Tail(@),
                                 !.sent = Append(@, subs[i].queue[1])]
                  ELSE Closed(@)]
    /\ streams' = IF send_ok THEN streams ELSE streams \ {subs[i].name}
    /\ UNCHANGED <<now, cfg, db, published, req, resp, written, skipped,
                   ticks, nwrites, calls, chans>>

\* handle_socket, first branch of select!: rx_stream.next() yields a message
\* and socket.send forwards it; the task ends when the send fails.
Forward(i, send_ok) ==
    /\ i \in 1..Len(subs)
    /\ subs[i].pc \in {"receiving", "socket_disabled"}
    /\ subs[i].lagged = 0
    /\ subs[i].queue # <<>>
    /\ subs' = [subs EXCEPT ![i] =
                  IF send_ok
                  THEN [@ EXCEPT !.pc = "receiving",
                                 !.queue = Tail(@),
                                 !.sent = Append(@, subs[i].queue[1])]
                  ELSE Closed(@)]
    /\ UNCHANGED <<now, cfg, db, streams, published, req, resp, written, skipped,
                   ticks, nwrites, calls, chans>>

\* handle_socket, first branch of select!: rx_stream.next() yields
\* Some(Err(Lagged(n))).  The pattern Some(Ok(msg)) does not match, so the
\* branch is disabled for this select!: the task goes on waiting for the
\* socket alone, or ends through the else branch when that one is disabled too.
RecvLagged(i) ==
    /\ i \in 1..Len(subs)
    /\ subs[i].pc \in {"receiving", "socket_disabled"}
    /\ subs[i].lagged > 0
    /\ subs' = [subs EXCEPT ![i] =
                  IF @.pc = "receiving"
                  THEN [@ EXCEPT !.pc = "rx_disabled", !.lagged = 0]
                  ELSE Closed(@)]
    /\ UNCHANGED <<now, cfg, db, streams, published, req, resp, written, skipped,
                   ticks, nwrites, calls, chans>>

\* Mutant: a task that takes the Close frame for any other frame.
MutSocketNextCloseIgnored(i, frame) ==
    /\ i \in 1..Len(subs)
    /\ subs[i].pc \in {"receiving", "rx_disabled"}
    /\ subs[i].closing => frame = "Close"
    /\ subs' = [subs EXCEPT ![i] =
                  CASE frame = "Close" -> [@ EXCEPT !.pc = "receiving",
                                                    !.unexpected = TRUE]
                    [] frame = "Other" -> [@ EXCEPT !.pc = "receiving",
                                                    !.unexpected = TRUE]
                    [] frame = "None" ->
                         IF @.pc = "receiving"
                         THEN [@ EXCEPT !.pc = "socket_disabled"]
                         ELSE Closed(@)]
    /\ UNCHANGED <<now, cfg, db, streams, published, req, resp, written, skipped,
                   ticks, nwrites, calls, chans>>

\* A task that ends on whatever frame the client sends.
MutSocketNextAnyFrameEnds(i, frame) ==
    /\ i \in 1..Len(subs)
    /\ subs[i].pc \in {"receiving", "rx_disabled"}
    /\ subs[i].closing => frame = "Close"
    /\ subs' = [subs EXCEPT ![i] =
                  CASE frame = "Close" -> Closed(@)
                    [] frame = "Other" -> Closed([@ EXCEPT !.unexpected = TRUE])
                    [] frame = "None" ->
                         IF @.pc = "receiving"
                         THEN [@ EXCEPT !.pc = "socket_disabled"]
                         ELSE Closed(@)]
    /\ UNCHANGED <<now, cfg, db, streams, published, req, resp, written, skipped,
                   ticks, nwrites, calls, chans>>

\* handle_socket, second branch of select!: socket.next() yields a Close
\* frame (break), another frame (next turn of the loop), or no frame at all
\* (an error or the end of the connection: the branch is disabled).
SocketNext(i, frame) ==
    /\ i \in 1..Len(subs)
    /\ subs[i].pc \in {"receiving", "rx_disabled"}
    /\ subs[i].closing => frame = "Close"
    /\ subs' = [subs EXCEPT ![i] =
                  CASE frame = "Close" -> Closed(@)
                    [] frame = "Other" -> [@ EXCEPT !.pc = "receiving",
                                                    !.unexpected = TRUE]
                    [] frame = "None" ->
                         IF @.pc = "receiving"
                         THEN [@ EXCEPT !.pc = "socket_disabled"]
                         ELSE Closed(@)]
    /\ UNCHANGED <<now, cfg, db, streams, published, req, resp, written, skipped,
                   ticks, nwrites, calls, chans>>

\* The client sends its Close frame and the frame reaches the server while
\* the task is in its loop with the socket open.
ClientClose(i) ==
    /\ i \in 1..Len(subs)
    /\ subs[i].pc \in {"receiving", "rx_disabled"}
    /\ ~subs[i].closing
    /\ subs' = [subs EXCEPT ![i].closing = TRUE]
    /\ UNCHANGED <<now, cfg, db, streams, published, req, resp, written, skipped,
                   ticks, nwrites, calls, chans>>

\* Publish and Forward for runs without end: the same steps, with the
\* histories (published, sent) left as they are.
PublishOn(cred, name, body) ==
    /\ req' = Request("publish", "POST", cred.header, cred.query, <<name, body>>)
    /\ IF Middleware(cfg, "POST", cred.header, cred.query)
       THEN LET r == PublishResult(streams, subs, name, body)
            IN  /\ streams' = r.streams
                /\ subs' = r.subs
                /\ resp' = r.resp
       ELSE /\ resp' = Unauthorized
            /\ UNCHANGED <<streams, subs>>
    /\ UNCHANGED <<now, cfg, db, published, written, skipped, ticks, nwrites,
                   calls, chans>>

ForwardOn(i, send_ok) ==
    /\ i \in 1..Len(subs)
    /\ subs[i].pc \in {"receiving", "socket_disabled"}
    /\ subs[i].lagged = 0
    /\ subs[i].queue # <<>>
    /\ subs' = [subs EXCEPT ![i] =
                  IF send_ok
                  THEN [@ EXCEPT !.pc = "receiving", !.queue = Tail(@)]
                  ELSE Closed(@)]
    /\ UNCHANGED <<now, cfg, db, streams, published, req, resp, written, skipped,
                   ticks, nwrites, calls, chans>>

\* The handlers on a server with several worker threads, channels told
\* apart.  A channel is named after the call that made it.

\* A send that reaches every receiver, whatever its channel.
MutSendOnEveryChannel(ss, c, body) ==
    [i \in 1..Len(ss) |->
       IF Subscribed(ss[i])
       THEN IF Len(ss[i].queue) >= CHANNEL_CAPACITY
            THEN [ss[i] EXCEPT !.queue = Append(Tail(@), body),
                               !.lagged = @ + 1]
            ELSE [ss[i] EXCEPT !.queue = Append(@, body)]
       ELSE ss[i]]

\* tx.send on one channel: its receivers get the message; a receiver whose
\* backlog is full loses its oldest message and lags.
SendOn(ss, c, body) ==
    [i \in 1..Len(ss) |->
       IF ss[i].chan = Some(c) /\ Subscribed(ss[i])
       THEN IF Len(ss[i].queue) >= CHANNEL_CAPACITY
            THEN [ss[i] EXCEPT !.queue = Append(Tail(@), body),
                               !.lagged = @ + 1]
            ELSE [ss[i] EXCEPT !.queue = Append(@, body)]
       ELSE ss[i]]

\* publish, up to streams.get(&name).  When the name has a channel the
\* message is sent on it under the map's guard and the call answers; when it
\* has none the call goes on to make one.
PublishLookup(cred, name, body) ==
    /\ IF ~Middleware(cfg, "POST", cred.header, cred.query)
       THEN /\ req' = Request("publish", "POST", cred.header, cred.query,
                              <<name, body>>)
            /\ resp' = Unauthorized
            /\ UNCHANGED <<subs, published, calls>>
       ELSE IF MessageTooLarge(body)
       THEN /\ req' = Request("publish", "POST", cred.header, cred.query,
                              <<name, body>>)
            /\ resp' = [status |-> 413, error |-> "", body |-> <<>>]
            /\ UNCHANGED <<subs, published, calls>>
       ELSE IF name \in DOMAIN chans
       THEN /\ req' = Request("publish", "POST", cred.header, cred.query,
                              <<name, body>>)
            /\ resp' = Ok(<<>>)
            /\ subs' = SendOn(subs, chans[name], body)
            /\ published' = Put(published, name, Append(Log(published, name), body))
            /\ UNCHANGED calls
       ELSE /\ Len(calls) < MaxCalls
            /\ calls' = Append(calls,
                  [req |-> Request("publish", "POST", cred.header, cred.query,
                                   <<name, body>>),
                   name |-> name, body |-> body, pc |-> "insert"])
            /\ UNCHANGED <<req, resp, subs, published>>
    /\ UNCHANGED <<now, cfg, db, streams, written, skipped, ticks, nwrites, chans>>

\* publish, the else branch: a new channel, the message sent on it (it has
\* no receiver), and streams.insert(name, tx), which puts the new channel in
\* the place of whatever the name holds by now.
PublishInstall(j) ==
    /\ j \in 1..Len(calls)
    /\ calls[j].pc = "insert"
    /\ chans' = Put(chans, calls[j].name, <<"publish", j>>)
    /\ streams' = streams \cup {calls[j].name}
    /\ published' = Put(published, calls[j].name,
                        Append(Log(published, calls[j].name), calls[j].body))
    /\ calls' = [calls EXCEPT ![j].pc = "done"]
    /\ req' = calls[j].req
    /\ resp' = Ok(<<>>)
    /\ UNCHANGED <<now, cfg, db, subs, written, skipped, ticks, nwrites>>

\* handle_socket, up to the subscription: streams.entry(name).or_insert_with
\* takes the name's channel, or installs a new one if the name has none, in
\* one step of the map, and the task becomes a receiver of that channel.
SubscribeEntry(i) ==
    /\ i \in 1..Len(subs)
    /\ subs[i].pc = "upgraded"
    /\ LET c == IF subs[i].name \in DOMAIN chans
                THEN chans[subs[i].name]
                ELSE <<"subscribe", i>>
       IN  /\ chans' = Put(chans, subs[i].name, c)
           /\ subs' = [subs EXCEPT ![i].pc = "receiving",
                                   ![i].chan = Some(c),
                                   ![i].joined = Len(Log(published, subs[i].name))]
    /\ streams' = streams \cup {subs[i].name}
    /\ UNCHANGED <<now, cfg, db, published, req, resp, written, skipped, ticks,
                   nwrites, calls>>

\* The channel of the task's receiver has no sender left: the registry held
\* the only one, and holds another channel for the name now.
ChannelClosed(s) ==
    /\ Subscribed(s)
    /\ ~(s.name \in DOMAIN chans /\ Some(chans[s.name]) = s.chan)

\* handle_socket, first branch of select!: rx_stream.next() yields None, the
\* channel being closed and empty.  The pattern Some(Ok(msg)) does not match,
\* so the branch is disabled for this select!: the task goes on waiting for
\* the socket alone, or ends through the else branch when that one is
\* disabled too.
RecvClosed(i) ==
    /\ i \in 1..Len(subs)
    /\ subs[i].pc \in {"receiving", "socket_disabled"}
    /\ subs[i].lagged = 0
    /\ subs[i].queue = <<>>
    /\ ChannelClosed(subs[i])
    /\ subs' = [subs EXCEPT ![i] =
                  IF @.pc = "receiving"
                  THEN [@ EXCEPT !.pc = "rx_disabled"]
                  ELSE Closed(@)]
    /\ UNCHANGED <<now, cfg, db, streams, published, req, resp, written, skipped,
                   ticks, nwrites, calls, chans>>

----------------------------------------------------------------------------
(* The KV store written and read by a client that holds the token *)

\* A set call runs up to its read of the store.  A call that fails answers
\* at once; a call that passes the limiter stays in flight with the entry it
\* is about to put.  racing: the calls on the same key that have read the
\* store and not yet written.
SetBegin(cred, key, value) ==
    /\ Len(calls) < MaxCalls
    /\ IF Middleware(cfg, "POST", cred.header, cred.query)
       THEN \E delay_ms \in Delays(cfg) :
              LET r == SetCheckResult(db, key, value, now, delay_ms)
              IN  IF r.entry = None
                  THEN /\ req' = Request("kv_set", "POST", cred.header,
                                         cred.query, <<key, value>>)
                       /\ resp' = r.resp
                       /\ UNCHANGED calls
                  ELSE /\ calls' = Append(calls,
                             [req |-> Request("kv_set", "POST", cred.header,
                                              cred.query, <<key, value>>),
                              key |-> key, entry |-> r.entry[1],
                              found |-> key \in DOMAIN db,
                              racing |-> {i \in 1..Len(calls) :
                                            /\ calls[i].key = key
                                            /\ calls[i].pc = "put"},
                              pc |-> "put", status |-> 0])
                       /\ UNCHANGED <<req, resp>>
       ELSE /\ req' = Request("kv_set", "POST", cred.header, cred.query,
                              <<key, value>>)
            /\ resp' = Unauthorized
            /\ UNCHANGED calls
    /\ UNCHANGED <<now, cfg, db, streams, subs, published, written, skipped,
                   ticks, nwrites, chans>>

\* set as the steps a worker thread takes it in: SystemTime::now(), then
\* db.get with the limiter, then db.put.

\* set, up to the clock: the size checks, and the time captured.
SetClock(cred, key, value) ==
    /\ Len(calls) < MaxCalls
    /\ IF ~Middleware(cfg, "POST", cred.header, cred.query)
       THEN /\ req' = Request("kv_set", "POST", cred.header, cred.query,
                              <<key, value>>)
            /\ resp' = Unauthorized
            /\ UNCHANGED calls
       ELSE IF KeyTooLarge(key) \/ ValueTooLarge(value)
       THEN /\ req' = Request("kv_set", "POST", cred.header, cred.query,
                              <<key, value>>)
            /\ resp' = IF KeyTooLarge(key) THEN Err("KeyTooLarge")
                       ELSE Err("ValueTooLarge")
            /\ UNCHANGED calls
       ELSE /\ calls' = Append(calls,
                  [req |-> Request("kv_set", "POST", cred.header, cred.query,
                                   <<key, value>>),
                   key |-> key,
                   entry |-> StoredValue(value, now, NowSecs(now)),
                   found |-> FALSE, racing |-> {},
                   pc |-> "read", status |-> 0])
            /\ UNCHANGED <<req, resp>>
    /\ UNCHANGED <<now, cfg, db, streams, subs, published, written, skipped,
                   ticks, nwrites, chans>>

\* now_secs - stored_value.updated_at < 1 on u64.  When updated_at is later
\* than now_secs the subtraction has no u64 result: a build with overflow
\* checks panics, a build without them wraps to 2^64 - (updated_at -
\* now_secs), which is not below 1, so the limiter lets the call pass.
LimiterOutcomes(d, key, now_secs) ==
    IF key \notin DOMAIN d THEN {"pass"}
    ELSE IF d[key].updated_at <= now_secs
    THEN IF now_secs - d[key].updated_at < 1 THEN {"limited"} ELSE {"pass"}
    ELSE {"panic", "pass"}

\* set, from db.get to the entry: the limiter on the entry read now against
\* the time captured before, then the delay and the entry to write.
SetRead(j) ==
    /\ j \in 1..Len(calls)
    /\ calls[j].pc = "read"
    /\ \E o \in LimiterOutcomes(db, calls[j].key, NowSecs(calls[j].req.at)),
          delay_ms \in Delays(cfg) :
          CASE o = "limited" ->
                 /\ calls' = [calls EXCEPT ![j].pc = "done", ![j].status = 429]
                 /\ req' = calls[j].req
                 /\ resp' = Err("UpdateRateExceeded")
            [] o = "panic" ->
                 /\ calls' = [calls EXCEPT ![j].pc = "panicked"]
                 /\ UNCHANGED <<req, resp>>
            [] o = "pass" ->
                 /\ calls' = [calls EXCEPT
                       ![j].entry = StoredValue(@.value,
                                       VisibleAt(calls[j].req.at, delay_ms),
                                       NowSecs(calls[j].req.at)),
                       ![j].found = calls[j].key \in DOMAIN db,
                       ![j].pc = "put"]
                 /\ UNCHANGED <<req, resp>>
    /\ UNCHANGED <<now, cfg, db, streams, subs, published, written, skipped,
                   ticks, nwrites, chans>>

\* The call in flight writes its entry and answers.
SetPut(i) ==
    /\ i \in 1..Len(calls)
    /\ calls[i].pc = "put"
    /\ LET r == SetPutResult(db, calls[i].key, calls[i].entry)
           ok == r.resp.status = 200
       IN  /\ db' = r.db
           /\ req' = calls[i].req
           /\ resp' = r.resp
           /\ calls' = [calls EXCEPT ![i].pc = "done",
                                     ![i].status = r.resp.status]
           /\ nwrites' = IF ok THEN nwrites + 1 ELSE nwrites
           /\ written' = IF ok
                         THEN Put(written, calls[i].key,
                                  [at |-> calls[i].req.at,
                                   value |-> calls[i].req.args[2]])
                         ELSE written
           /\ skipped' = IF ok THEN skipped \ {calls[i].key} ELSE skipped
    /\ UNCHANGED <<now, cfg, streams, subs, published, ticks, chans>>

InitKV == InitWith(Configs({AsciiToken}, {FALSE}))

NextKV ==
    \/ \E d \in TickSteps : Tick(d)
    \/ \E k \in {KeyA, KeyAtLimit, KeyOverLimit}, v \in KvValues :
          KvSet(ClientCred(cfg), k, v)
    \/ \E k \in {KeyA, KeyAtLimit, KeyOverLimit} : KvGet(ClientCred(cfg), "GET", k)

SpecKV == InitKV /\ [][NextKV]_vars

----------------------------------------------------------------------------
(* The KV store written and queried by a client that holds the token *)

QueryRanges == {<<None, None>>, <<Some(KeyA), None>>,
                <<Some(KeyA), Some(KeyB)>>, <<Some(KeyB), Some(KeyA)>>}
QueryLimits == {None, Some(1)}

NextQuery ==
    \/ \E d \in TickSteps : Tick(d)
    \/ \E k \in KvKeys : KvSet(ClientCred(cfg), k, Value1)
    \/ \E r \in QueryRanges, l \in QueryLimits :
          KvQuery(ClientCred(cfg), "GET", r[1], r[2], l)

SpecQuery == InitKV /\ [][NextQuery]_vars

----------------------------------------------------------------------------
(* Every endpoint, called with and without credentials *)

InitAuth ==
    InitWith({c \in Configs({AsciiToken, Utf8Token}, BOOLEAN) :
                c.consistency_bound_max = 0})

NextAuth ==
    \/ \E cr \in Creds(cfg) : KvSet(cr, KeyA, Value1)
    \/ \E cr \in Creds(cfg), m \in {"GET", "HEAD"} : KvGet(cr, m, KeyA)
    \/ \E cr \in Creds(cfg) : KvQuery(cr, "GET", None, None, None)
    \/ \E cr \in Creds(cfg) : AdbSetKey(cr, AdbKeyText, 0, Value1)
    \/ \E cr \in Creds(cfg) : AdbSetNodeDigest(cr, 1, Digest1)
    \/ \E cr \in Creds(cfg), m \in {"GET", "POST"}, size \in AdbSizes :
          AdbGet(cr, m, AdbKeyText, size)
    \/ \E cr \in Creds(cfg) :
          /\ Len(Log(published, Topic1)) < MaxAuthPublished
          /\ Publish(cr, Topic1, Value1)
    \/ \E cr \in Creds(cfg) : Len(subs) < MaxAuthSubs /\ Subscribe(cr, Topic1)
    \/ \E i \in 1..MaxSubs : SocketSubscribe(i)

SpecAuth == InitAuth /\ [][NextAuth]_vars

----------------------------------------------------------------------------
(* Topics, publishers and WebSocket subscribers *)

\* The server of the stream tests: with_server(_, 0, 0).
StreamConfigs ==
    {c \in Configs({AsciiToken}, {FALSE}) : c.consistency_bound_max = 0}

InitStream == InitWith(StreamConfigs)

NextStream ==
    \/ \E t \in StreamTopics, b \in StreamBodies :
          /\ Len(Log(published, t)) < MaxPublished
          /\ Publish(ClientCred(cfg), t, b)
    \/ \E t \in StreamTopics : Subscribe(ClientCred(cfg), t)
    \/ \E i \in 1..MaxSubs : SocketSubscribe(i)
    \/ \E i \in 1..MaxSubs, send_ok \in BOOLEAN : Forward(i, send_ok)
    \/ \E i \in 1..MaxSubs, f \in Frames : SocketNext(i, f)

SpecStream == InitStream /\ [][NextStream]_vars

----------------------------------------------------------------------------
(* Claims about the KV store *)

Admitted == resp.status # 401
IsSet == req.op = "kv_set" /\ Admitted
IsGet == req.op = "kv_get" /\ Admitted
IsQuery == req.op = "kv_query" /\ Admitted

\* C1: a get of k issued more than bound_max ms after the last successful
\* set(k, v) returns exactly v.
C1_RoundTrip ==
    IsGet =>
        LET k == req.args[1]
        IN  (k \in DOMAIN written
             /\ req.at > written[k].at + cfg.consistency_bound_max)
            => /\ resp.status = 200
               /\ Base64Decode(resp.body[1].value) = written[k].value

C1_Witness ==
    /\ IsGet
    /\ cfg.consistency_bound_max = 1
    /\ req.args[1] = KeyAtLimit
    /\ KeyAtLimit \in DOMAIN written
    /\ written[KeyAtLimit].value = ValueAtLimit
    /\ req.at > written[KeyAtLimit].at + 1
    /\ resp.status = 200
    /\ Base64Decode(resp.body[1].value) = ValueAtLimit

\* C2: for the last successful set(k, v), at write_time, there is one t in
\* [bound_min, bound_max] such that every get of k read before write_time + t
\* answers 404 and every get read at or after write_time + t returns v.
C2_InvisibilityWindow ==
    \A k \in DOMAIN written :
        LET t == db[k].visible_at - written[k].at
        IN  /\ t >= cfg.consistency_bound_min
            /\ t <= cfg.consistency_bound_max
            /\ (IsGet /\ req.args[1] = k /\ req.at >= written[k].at) =>
                  IF req.at < written[k].at + t
                  THEN resp.status = 404
                  ELSE /\ resp.status = 200
                       /\ Base64Decode(resp.body[1].value) = written[k].value

C2_Witness ==
    /\ IsGet
    /\ cfg.consistency_bound_min = 1
    /\ req.args[1] \in DOMAIN written
    /\ req.at = written[req.args[1]].at + 1
    /\ resp.status = 200
    /\ Base64Decode(resp.body[1].value) = written[req.args[1]].value

\* C3: get answers with a value exactly when an entry is stored at the key
\* with visible_at <= the read time, and with NotFound (404) otherwise.
C3_GetVisibleOnly ==
    IsGet =>
        LET k == req.args[1]
        IN  IF k \in DOMAIN db /\ db[k].visible_at <= req.at
            THEN resp.status = 200 /\ Len(resp.body) = 1
            ELSE resp.status = 404 /\ resp.error = "NotFound" /\ resp.body = <<>>

C3_Witness ==
    /\ IsGet
    /\ req.args[1] \in DOMAIN db
    /\ db[req.args[1]].visible_at > req.at
    /\ resp.status = 404

\* C4: an entry stored by a set at now_ms has updated_at = floor(now_ms/1000)
\* and visible_at - now_ms in [bound_min, bound_max] when bound_max > 0,
\* visible_at = now_ms otherwise.
C4_EntryStamps ==
    \A k \in DOMAIN db :
        LET now_ms == written[k].at
        IN  /\ db[k].updated_at * 1000 <= now_ms
            /\ now_ms < (db[k].updated_at + 1) * 1000
            /\ db[k].visible_at >= now_ms
            /\ IF cfg.consistency_bound_max > 0
               THEN /\ db[k].visible_at - now_ms >= cfg.consistency_bound_min
                    /\ db[k].visible_at - now_ms <= cfg.consistency_bound_max
               ELSE db[k].visible_at = now_ms

C4_Witness ==
    /\ IsSet
    /\ resp.status = 200
    /\ req.at >= 1000
    /\ db[req.args[1]].updated_at = 1
    /\ db[req.args[1]].visible_at = req.at + 1

\* C5 as stated: a set to a key issued less than one second after a
\* successful set to that key fails with UpdateRateExceeded (429), whatever
\* value (of a size set accepts) it carries.
C5_AsStated ==
    [][\A k \in KvKeys, v \in KvValues :
          (/\ KvSet(ClientCred(cfg), k, v)
           /\ k \in DOMAIN written
           /\ ValLen(v) <= 20 * 1024 * 1024
           /\ now - written[k].at < 1000)
          => (resp'.status = 429 /\ resp'.error = "UpdateRateExceeded")]_vars

\* C5 as amended: a set to a key issued in the clock second (floor(ms/1000))
\* of the last successful set to that key, with a value of at most 20 MiB,
\* fails with UpdateRateExceeded (429) and leaves the entry as it was.
C5_SameSecondRejected ==
    [][\A k \in KvKeys, v \in KvValues :
          (/\ KvSet(ClientCred(cfg), k, v)
           /\ k \in DOMAIN written
           /\ ValLen(v) <= 20 * 1024 * 1024
           /\ written[k].at \div 1000 = now \div 1000)
          => (/\ resp'.status = 429
              /\ resp'.error = "UpdateRateExceeded"
              /\ db' = db)]_vars

C5_Witness ==
    /\ IsSet
    /\ resp.status = 429
    /\ req.args[1] \in DOMAIN written
    /\ req.args[2] # written[req.args[1]].value
    /\ req.at > written[req.args[1]].at
    /\ db[req.args[1]].value = written[req.args[1]].value

\* C6: query(start, end, limit) returns, in ascending byte order of the keys,
\* exactly the first `limit` (all, when limit is absent) entries visible at
\* query time whose key satisfies start <= key < end.
InRange(k, start, endk) ==
    /\ start = None \/ BytesLe(start[1], k)
    /\ endk = None \/ BytesLt(k, endk[1])

VisibleInRange(start, endk, t) ==
    {k \in DOMAIN db : db[k].visible_at <= t /\ InRange(k, start, endk)}

ResultKeys == {resp.body[i].key : i \in 1..Len(resp.body)}

C6_QueryRange ==
    IsQuery =>
        LET start == req.args[1]
            endk == req.args[2]
            limit == req.args[3]
            S == VisibleInRange(start, endk, req.at)
            res == resp.body
        IN  /\ resp.status = 200
            /\ \A i \in 1..Len(res), j \in 1..Len(res) :
                  i < j => BytesLt(res[i].key, res[j].key)
            /\ ResultKeys \subseteq S
            /\ Len(res) = IF limit = None THEN Cardinality(S)
                          ELSE Min(limit[1], Cardinality(S))
            /\ \A k \in ResultKeys, o \in S \ ResultKeys : BytesLt(k, o)
            /\ \A i \in 1..Len(res) :
                  Base64Decode(res[i].value) = db[res[i].key].value
            /\ (start # None /\ endk # None /\ BytesLt(endk[1], start[1]))
                  => res = <<>>

C6_Witness ==
    /\ IsQuery
    /\ DOMAIN db = {KeyA, KeyAtLimit, KeyB}
    /\ \A k \in DOMAIN db : db[k].visible_at <= req.at
    /\ req.args = <<Some(KeyA), Some(KeyB), None>>
    /\ Len(resp.body) = 2
    /\ resp.body[1].key = KeyA
    /\ resp.body[2].key = KeyAtLimit

\* C7: a query passes over an entry that is not yet visible without ending
\* the iteration: visible entries with larger keys in the range are still
\* returned, and the entry passed over is returned by a later query made
\* once its visible_at has passed.
RankIn(S, k) == Cardinality({o \in S : BytesLt(o, k)})

C7_InvisibleSkipped ==
    IsQuery =>
        LET start == req.args[1]
            endk == req.args[2]
            limit == req.args[3]
            S == VisibleInRange(start, endk, req.at)
            hidden == {k \in DOMAIN db :
                          db[k].visible_at > req.at /\ InRange(k, start, endk)}
            due(k) == limit = None \/ RankIn(S, k) < limit[1]
        IN  /\ hidden \cap ResultKeys = {}
            /\ \A h \in hidden, k \in S :
                  (BytesLt(h, k) /\ due(k)) => k \in ResultKeys
            /\ \A k \in skipped \cap S : due(k) => k \in ResultKeys

C7_Witness ==
    /\ IsQuery
    /\ req.args = <<None, None, None>>
    /\ DOMAIN db = {KeyA, KeyAtLimit, KeyB}
    /\ KeyA \in skipped
    /\ db[KeyA].visible_at <= req.at
    /\ db[KeyAtLimit].visible_at > req.at
    /\ Len(resp.body) = 2
    /\ resp.body[1].key = KeyA
    /\ resp.body[2].key = KeyB

\* C8: set accepts a key of exactly 512 bytes and a value of exactly 20 MiB;
\* a longer key fails with KeyTooLarge (413), a longer value with
\* ValueTooLarge (413), and neither writes an entry.
C8_SizeLimits ==
    /\ \A k \in DOMAIN db :
          KeyLen(k) <= 512 /\ ValLen(db[k].value) <= 20 * 1024 * 1024
    /\ IsSet =>
          LET k == req.args[1]
              v == req.args[2]
          IN  IF KeyLen(k) > 512
              THEN resp.status = 413 /\ resp.error = "KeyTooLarge"
              ELSE IF ValLen(v) > 20 * 1024 * 1024
              THEN resp.status = 413 /\ resp.error = "ValueTooLarge"
              ELSE \/ resp.status = 200 /\ db[k].value = v
                   \/ resp.status = 429 /\ k \in DOMAIN db

C8_Witness ==
    /\ IsSet
    /\ req.args = <<KeyAtLimit, ValueAtLimit>>
    /\ resp.status = 200
    /\ db[KeyAtLimit].value = ValueAtLimit
    /\ KeyLen(KeyAtLimit) = 512
    /\ ValLen(ValueAtLimit) = 20 * 1024 * 1024

----------------------------------------------------------------------------
(* Claims about the authentication gate *)

Called == req.op # "none"
GateAdmitted == Called /\ resp # Unauthorized

\* The three ways a request is entitled to pass the gate.
HeaderIsBearerToken == req.header = Some(BearerPrefix \o cfg.token)
QueryTokenIsToken == FindParam(req.query, "token") = Some(cfg.token)
PublicRead == cfg.allow_public_access /\ req.method = "GET"

\* C9: the gate admits a request if and only if its Authorization header is
\* "Bearer T" for the configured token T, or its query parameter token equals
\* T, or public access is on and the method is GET; every other request is
\* answered 401.
C9_AuthGate ==
    Called =>
      /\ GateAdmitted <=> (HeaderIsBearerToken \/ QueryTokenIsToken \/ PublicRead)
      /\ ~(HeaderIsBearerToken \/ QueryTokenIsToken \/ PublicRead)
            => resp.status = 401

\* C9 restricted to a token of visible ASCII: there the gate admits exactly
\* the requests the claim names.
C9_AuthGateVisibleAscii ==
    (Called /\ ToStr(cfg.token) # None) =>
      /\ GateAdmitted <=> (HeaderIsBearerToken \/ QueryTokenIsToken \/ PublicRead)
      /\ ~(HeaderIsBearerToken \/ QueryTokenIsToken \/ PublicRead)
            => resp.status = 401

\* C10: a request that carries no valid token is answered 401 on every
\* endpoint when public access is off; when it is on, every GET is admitted
\* (it is not answered 401) and every POST is answered 401.
C10_NoToken ==
    (Called /\ ~HeaderIsBearerToken /\ ~QueryTokenIsToken) =>
      IF cfg.allow_public_access
      THEN /\ req.method = "GET" => resp.status # 401
           /\ req.method = "POST" => resp.status = 401
      ELSE resp.status = 401

\* C10 happens: with public access on, a WebSocket subscribe that carries no
\* token at all is upgraded.
C10_Witness ==
    /\ cfg.allow_public_access
    /\ req.op = "subscribe"
    /\ req.header = None
    /\ req.query = <<>>
    /\ resp = Upgraded
    /\ Len(subs) = 1
    /\ streams = {}

\* C11: a request that carries the valid token, in the Authorization header
\* or in the query parameter token, is not answered 401 on any endpoint, for
\* both settings of allow_public_access; in particular a WebSocket subscribe
\* with ?token=T and no Authorization header is upgraded.
C11_TokenAdmitted ==
    (Called /\ (HeaderIsBearerToken \/ QueryTokenIsToken)) =>
      /\ resp.status # 401
      /\ (req.op = "subscribe" /\ req.header = None) => resp = Upgraded

\* C11 for the subscribe endpoint alone, with a token of visible ASCII: the
\* query parameter token does not open the WebSocket.
C11_SubscribeQueryToken ==
    (/\ req.op = "subscribe"
     /\ ToStr(cfg.token) # None
     /\ req.header = None
     /\ QueryTokenIsToken) => resp = Upgraded

NoValidToken == Called /\ ~HeaderIsBearerToken /\ ~QueryTokenIsToken
IsWrite == req.op \in {"kv_set", "adb_set_key", "adb_set_node_digest", "publish"}
IsRead == req.op \in {"kv_get", "kv_query", "adb_get"} /\ req.method = "GET"

\* C12 as stated: with public access on, a GET read without a valid token is
\* admitted, while a write or a WebSocket subscribe without a valid token is
\* answered 401.
C12_AsStated ==
    (NoValidToken /\ cfg.allow_public_access) =>
      /\ IsRead => resp.status # 401
      /\ IsWrite => resp.status = 401
      /\ req.op = "subscribe" => resp.status = 401

\* C12 amended: with public access on, a GET read and a WebSocket subscribe
\* without a valid token are admitted (the subscribe is upgraded), while a
\* write without a valid token is answered 401 by the gate.
C12_PublicReadAndSubscribe ==
    (NoValidToken /\ cfg.allow_public_access) =>
      /\ IsRead => resp.status # 401
      /\ IsWrite => resp = Unauthorized
      /\ req.op = "subscribe" => resp = Upgraded

\* C12 happens: with public access on, a subscribe that carries another
\* token than the configured one is upgraded and its task is created.
C12_Witness ==
    /\ cfg.allow_public_access
    /\ req.op = "subscribe"
    /\ req.header = Some(BearerPrefix \o WrongToken)
    /\ req.query = <<>>
    /\ resp = Upgraded
    /\ Len(subs) = 1

----------------------------------------------------------------------------
(* A subscriber that falls behind: the state after one client subscribed to
   a topic and CHANNEL_CAPACITY - 1 messages were published while its
   connection took none of them, and what follows *)

\* The i-th message published: i zero bytes.
Msg(i) == [data |-> <<>>, zeros |-> i]

Backlog(n) == [i \in 1..n |-> Msg(i)]

SlowSocket(n) ==
    [NewSocket(Topic1) EXCEPT !.pc = "receiving", !.queue = Backlog(n)]

InitLag ==
    /\ now = 0
    /\ cfg \in StreamConfigs
    /\ db = EmptyMap
    /\ streams = {Topic1}
    /\ subs = <<SlowSocket(CHANNEL_CAPACITY - 1)>>
    /\ published = Put(EmptyMap, Topic1, Backlog(CHANNEL_CAPACITY - 1))
    /\ req = Request("publish", "POST", ClientCred(cfg).header,
                     ClientCred(cfg).query, <<Topic1, Msg(CHANNEL_CAPACITY - 1)>>)
    /\ resp = PublishResult({Topic1}, <<SlowSocket(CHANNEL_CAPACITY - 2)>>,
                            Topic1, Msg(CHANNEL_CAPACITY - 1)).resp
    /\ written = EmptyMap
    /\ skipped = {}
    /\ ticks = 0
    /\ nwrites = 0
    /\ calls = <<>>
    /\ chans = EmptyMap

NextLag ==
    \/ /\ Len(Log(published, Topic1)) < CHANNEL_CAPACITY + MaxOverflow
       /\ Publish(ClientCred(cfg), Topic1, Msg(Len(Log(published, Topic1)) + 1))
    \/ \E b \in {Hello, ValueOverLimit} :
          /\ Len(Log(published, Topic2)) < MaxAuthPublished
          /\ Publish(ClientCred(cfg), Topic2, b)
    \/ Subscribe(ClientCred(cfg), Topic1)
    \/ \E i \in 1..MaxSubs : SocketSubscribe(i)
    \/ \E i \in 1..MaxSubs, send_ok \in BOOLEAN :
          /\ i <= Len(subs)
          /\ Len(subs[i].sent) < MaxForwards
          /\ Forward(i, send_ok)
    \/ \E i \in 1..MaxSubs : RecvLagged(i)
    \/ \E i \in 1..MaxSubs, f \in Frames : SocketNext(i, f)

SpecLag == InitLag /\ [][NextLag]_vars

----------------------------------------------------------------------------
(* Publishes and subscriptions at the size limits *)

TopicAtLimit == Rep(115, 512)          \* "s".repeat(512)
TopicOverLimit == Rep(97, 513)         \* "a".repeat(513)
LimitTopics == {TopicAtLimit, TopicOverLimit}
LimitBodies == {Hello, ValueAtLimit, ValueOverLimit}

NextLimits ==
    \/ \E t \in LimitTopics, b \in LimitBodies :
          /\ Len(Log(published, t)) < MaxAuthPublished
          /\ Publish(ClientCred(cfg), t, b)
    \/ \E t \in LimitTopics : Subscribe(ClientCred(cfg), t)
    \/ \E i \in 1..MaxSubs : SocketSubscribe(i)
    \/ \E i \in 1..MaxSubs, send_ok \in BOOLEAN : Forward(i, send_ok)
    \/ \E i \in 1..MaxSubs, f \in Frames : SocketNext(i, f)

SpecLimits == InitStream /\ [][NextLimits]_vars

----------------------------------------------------------------------------
(* The ADB written and read by a client that holds the token *)

AdbKeyTexts == {AdbKeyText, EncodeData(<<107>>)}     \* "key", "k"
AdbPositions == {0, 1, 3}                            \* the first three leaves
AdbValues == {Value1, Hello}
AdbNodes == {1, 2, 3}
AdbDigests == {Digest1, Digest2}
AdbBadDigests == {NoBody, DigestShort, DigestLong}
AdbGetSizes == {1, 2, 4}

NextAdb ==
    \/ \E k \in AdbKeyTexts, p \in AdbPositions, v \in AdbValues :
          AdbSetKey(ClientCred(cfg), k, p, v)
    \/ \E p \in AdbNodes, v \in AdbDigests \cup AdbBadDigests :
          AdbSetNodeDigest(ClientCred(cfg), p, v)
    \/ \E k \in AdbKeyTexts, size \in AdbGetSizes :
          AdbGet(ClientCred(cfg), "GET", k, size)

SpecAdb == InitStream /\ [][NextAdb]_vars

----------------------------------------------------------------------------
(* The KV store and the ADB over the one database, under every pair of
   consistency bounds *)

AdbDbKey == KeyDbKey(<<107, 101, 121>>)             \* 0x00 "key"
StoreKeys == {KeyA, AdbDbKey, NodeKey(1)}

NextStore ==
    \/ \E d \in TickSteps : Tick(d)
    \/ KvSet(ClientCred(cfg), KeyA, Value1)
    \/ \E k \in StoreKeys : KvGet(ClientCred(cfg), "GET", k)
    \/ \E v \in AdbValues : AdbSetKey(ClientCred(cfg), AdbKeyText, 0, v)
    \/ AdbSetNodeDigest(ClientCred(cfg), 1, Digest1)
    \/ \E size \in {1, 3} : AdbGet(ClientCred(cfg), "GET", AdbKeyText, size)

SpecStore == InitKV /\ [][NextStore]_vars

\* The error kinds of the two modules.
StoreErrors == {"KeyTooLarge", "ValueTooLarge", "UpdateRateExceeded",
                "NotFound", "InvalidParameter", "InvalidBody", "Internal",
                "MissingData", "Db", "Bincode"}
StreamErrors == {"NameTooLarge", "MessageTooLarge"}

\* A handler of the store module returns Err(kind): axum turns it into the
\* response.
StoreIntoResponse(kind) ==
    /\ req' = Request("store_error", "", ClientCred(cfg).header,
                      ClientCred(cfg).query, <<kind>>)
    /\ resp' = StoreErr(kind)
    /\ UNCHANGED <<now, cfg, db, streams, subs, published, written, skipped,
                   ticks, nwrites, calls, chans>>

\* The same for an error of the stream module.
StreamIntoResponse(kind) ==
    /\ req' = Request("stream_error", "", ClientCred(cfg).header,
                      ClientCred(cfg).query, <<kind>>)
    /\ resp' = StreamErr(kind)
    /\ UNCHANGED <<now, cfg, db, streams, subs, published, written, skipped,
                   ticks, nwrites, calls, chans>>

\* The store handlers on inputs that make them fail in every way they can,
\* and the two conversions on every error kind.
ErrorKeys == {KeyA, KeyOverLimit, AdbDbKey, NodeKey(1)}
ErrorValues == {Value1, ValueOverLimit}
BadKeyText == <<10, 11, 12>>                       \* "KLM": not base64
ErrorKeyTexts == {AdbKeyText, BadKeyText}
NextErrors ==
    \/ \E d \in TickSteps : Tick(d)
    \/ \E k \in ErrorKeys, v \in ErrorValues : KvSet(ClientCred(cfg), k, v)
    \/ \E k \in ErrorKeys : KvGet(ClientCred(cfg), "GET", k)
    \/ \E k \in ErrorKeyTexts : AdbSetKey(ClientCred(cfg), k, 0, Value1)
    \/ \E v \in {Digest1, DigestShort} :
          AdbSetNodeDigest(ClientCred(cfg), 1, v)
    \/ \E k \in ErrorKeyTexts : AdbGet(ClientCred(cfg), "GET", k, 3)
    \/ \E kind \in StoreErrors : StoreIntoResponse(kind)
    \/ \E kind \in StreamErrors : StreamIntoResponse(kind)
SpecErrors == InitStream /\ [][NextErrors]_vars

\* KV set calls served by several worker threads: the two halves of a call
\* are steps of their own, and the clock and the reads run between them.
RaceKeys == {KeyA, KeyB}
RaceValues == {Value1, Hello}
NextRace ==
    \/ \E d \in TickSteps : Tick(d)
    \/ \E k \in RaceKeys, v \in RaceValues : SetBegin(ClientCred(cfg), k, v)
    \/ \E i \in 1..MaxCalls : SetPut(i)
    \/ \E k \in RaceKeys : KvGet(ClientCred(cfg), "GET", k)
SpecRace == InitKV /\ [][NextRace]_vars

\* Calls of set on one key, each pre-empted anywhere between its three
\* steps, with the clock moving.
NextClock ==
    \/ \E d \in TickSteps : Tick(d)
    \/ \E v \in RaceValues : SetClock(ClientCred(cfg), KeyA, v)
    \/ \E j \in 1..MaxCalls : SetRead(j)
    \/ \E i \in 1..MaxCalls : SetPut(i)
    \/ KvGet(ClientCred(cfg), "GET", KeyA)
SpecClock == InitKV /\ [][NextClock]_vars

\* Key "a" written with "v1!" first and overwritten with "hi!", key "b"
\* beside it, and reads of both kinds at every time.
NextOverwrite ==
    \/ \E d \in TickSteps : Tick(d)
    \/ KvSet(ClientCred(cfg), KeyA, IF KeyA \in DOMAIN db THEN Hello ELSE Value1)
    \/ KvSet(ClientCred(cfg), KeyB, Value1)
    \/ \E k \in {KeyA, KeyB} : KvGet(ClientCred(cfg), "GET", k)
    \/ \E l \in QueryLimits : KvQuery(ClientCred(cfg), "GET", None, None, l)
SpecOverwrite == InitKV /\ [][NextOverwrite]_vars

\* KV sets that fail in more than one way at once.  set_key has no size
\* limit, so the entry it writes for a key of MAX_KEY_SIZE bytes sits under
\* a database key of MAX_KEY_SIZE + 1 bytes, which a KV set can name.
LongKeyText == EncodeData([i \in 1..MAX_KEY_SIZE |-> 97])
LongDbKey == KeyDbKey([i \in 1..MAX_KEY_SIZE |-> 97])
OrderKeys == {KeyA, LongDbKey}
OrderValues == {Value1, ValueOverLimit}
NextOrder ==
    \/ \E d \in TickSteps : Tick(d)
    \/ \E k \in OrderKeys, v \in OrderValues : KvSet(ClientCred(cfg), k, v)
    \/ \E k \in OrderKeys : KvGet(ClientCred(cfg), "GET", k)
    \/ \E v \in AdbValues : AdbSetKey(ClientCred(cfg), LongKeyText, 0, v)
SpecOrder == InitKV /\ [][NextOrder]_vars

\* The ADB written again and again.  The history keeps, per database key,
\* the last accepted write and how many accepted writes the key has had in
\* the clock second of that write.
WritesThisSecond(key) ==
    IF key \in DOMAIN written /\ written[key].at \div SecMs = now \div SecMs
    THEN written[key].n
    ELSE 0

Logged(w, key, value, position) ==
    Put(w, key, [at |-> now, value |-> value, position |-> position,
                 n |-> WritesThisSecond(key) + 1])

AdbSetKeyLogged(cred, keytext, position, value) ==
    /\ WritesThisSecond(KeyDbKey(DecodeText(keytext))) < MaxAdbWrites
    /\ req' = Request("adb_set_key", "POST", cred.header, cred.query,
                      <<keytext, position, value>>)
    /\ IF Middleware(cfg, "POST", cred.header, cred.query)
       THEN LET r == SetKeyResult(db, keytext, position, value, now)
            IN  /\ db' = r.db
                /\ resp' = r.resp
                /\ written' = IF r.resp.status = 200
                              THEN Logged(written, KeyDbKey(DecodeText(keytext)),
                                          value, position)
                              ELSE written
       ELSE /\ resp' = Unauthorized
            /\ UNCHANGED <<db, written>>
    /\ UNCHANGED <<now, cfg, streams, subs, published, skipped, ticks,
                   nwrites, calls, chans>>

AdbSetNodeDigestLogged(cred, position, value) ==
    /\ WritesThisSecond(NodeKey(position)) < MaxAdbWrites
    /\ req' = Request("adb_set_node_digest", "POST", cred.header, cred.query,
                      <<position, value>>)
    /\ IF Middleware(cfg, "POST", cred.header, cred.query)
       THEN LET r == SetNodeDigestResult(db, position, value, now)
            IN  /\ db' = r.db
                /\ resp' = r.resp
                /\ written' = IF r.resp.status = 200
                              THEN Logged(written, NodeKey(position), value,
                                          position)
                              ELSE written
       ELSE /\ resp' = Unauthorized
            /\ UNCHANGED <<db, written>>
    /\ UNCHANGED <<now, cfg, streams, subs, published, skipped, ticks,
                   nwrites, calls, chans>>

NextAdbRate ==
    \/ \E d \in TickSteps : Tick(d)
    \/ \E p \in {0, 1}, v \in AdbValues :
          AdbSetKeyLogged(ClientCred(cfg), AdbKeyText, p, v)
    \/ \E v \in AdbDigests : AdbSetNodeDigestLogged(ClientCred(cfg), 1, v)
    \/ \E size \in {1, 3} : AdbGet(ClientCred(cfg), "GET", AdbKeyText, size)
SpecAdbRate == InitStream /\ [][NextAdbRate]_vars

\* Subscribers that close while the publishers never stop.  tokio's select!
\* polls its ready branches in random order, so a branch that stays ready is
\* taken in the end: weak fairness of the socket branch.
Backlogged(name) ==
    \E i \in 1..Len(subs) :
       subs[i].name = name /\ Subscribed(subs[i]) /\ Len(subs[i].queue) >= MaxBacklog

NextClose ==
    \/ \E b \in StreamBodies :
          /\ ~Backlogged(Topic1)
          /\ PublishOn(ClientCred(cfg), Topic1, b)
    \/ Subscribe(ClientCred(cfg), Topic1)
    \/ \E i \in 1..MaxSubs : SocketSubscribe(i)
    \/ \E i \in 1..MaxSubs, send_ok \in BOOLEAN : ForwardOn(i, send_ok)
    \/ \E i \in 1..MaxSubs, f \in Frames : SocketNext(i, f)
    \/ \E i \in 1..MaxSubs : ClientClose(i)

FairClose == \A i \in 1..MaxSubs : WF_vars(SocketNext(i, "Close"))

SpecClose == InitStream /\ [][NextClose]_vars /\ FairClose

\* Two topics, first publishes and first subscribes running side by side.
\* A task that is ready to run is run: its own steps are taken when they
\* stay possible.
\* The publishes taken in so far: the ones that have sent their message and
\* the ones that are about to install a channel.
PublishesTaken ==
    Cardinality({j \in 1..Len(calls) : calls[j].pc = "insert"})
       + Len(Log(published, Topic1)) + Len(Log(published, Topic2))

NextRegistry ==
    \/ \E t \in StreamTopics, b \in StreamBodies :
          /\ PublishesTaken < MaxPublished
          /\ PublishLookup(ClientCred(cfg), t, b)
    \/ \E j \in 1..MaxCalls : PublishInstall(j)
    \/ \E t \in StreamTopics : Subscribe(ClientCred(cfg), t)
    \/ \E i \in 1..MaxSubs : SubscribeEntry(i)
    \/ \E i \in 1..MaxSubs, send_ok \in BOOLEAN : Forward(i, send_ok)
    \/ \E i \in 1..MaxSubs : RecvClosed(i)
    \/ \E i \in 1..MaxSubs, f \in Frames : SocketNext(i, f)

FairRegistry ==
    \A i \in 1..MaxSubs :
       /\ WF_vars(RecvClosed(i))
       /\ WF_vars(\E send_ok \in BOOLEAN : Forward(i, send_ok))

SpecRegistry == InitStream /\ [][NextRegistry]_vars /\ FairRegistry

----------------------------------------------------------------------------
(* Claims about the streams *)

IsPrefix(a, b) == Len(a) <= Len(b) /\ a = SubSeq(b, 1, Len(a))

\* What a topic got after the task subscribed to it.
Since(s) ==
    SubSeq(Log(published, s.name), s.joined + 1, Len(Log(published, s.name)))

C14_LateSubscriber ==
    \A i \in 1..Len(subs) :
      /\ subs[i].pc = "upgraded" => (subs[i].sent = <<>> /\ subs[i].queue = <<>>)
      /\ Len(subs[i].sent) + Len(subs[i].queue) <= Len(Since(subs[i]))
      /\ IsPrefix(subs[i].sent, Since(subs[i]))

\* C14 happens: the topic existed and had an earlier subscriber when the
\* second one subscribed after the first message; the earlier one received
\* both messages, the late one only the second.
C14_Witness ==
    /\ Len(subs) = 2
    /\ subs[1].name = subs[2].name
    /\ Log(published, subs[1].name) = <<Value1, Hello>>
    /\ subs[1].sent = <<Value1, Hello>>
    /\ subs[2].joined = 1
    /\ subs[2].sent = <<Hello>>
    /\ subs[2].queue = <<>>

\* C15: a subscriber whose buffer overflowed gets no message published
\* after the gap: the frames sent to any subscriber are a run of consecutive
\* messages of the topic's publish sequence.
C15_GapFree ==
    \A i \in 1..Len(subs) :
      \E a \in 0..(Len(Log(published, subs[i].name)) - Len(subs[i].sent)) :
         subs[i].sent =
           SubSeq(Log(published, subs[i].name), a + 1, a + Len(subs[i].sent))

\* C15: a subscriber that lagged ends: it is never again a task that waits
\* for the next message of the channel.
C15_LagTerminates ==
    [][\A i \in 1..Len(subs) :
         subs[i].pc = "rx_disabled" =>
            subs'[i].pc \in {"rx_disabled", "closed"}]_vars

\* C16: a publish that passes the gate and whose body is within the limit is
\* answered 200, whether the topic existed or not and whatever its
\* subscribers are doing; no failure of the send reaches the publisher.
C16_PublishOk ==
    (/\ req.op = "publish"
     /\ Middleware(cfg, "POST", req.header, req.query)
     /\ ~MessageTooLarge(req.args[2])) => resp = Ok(<<>>)

\* C16 happens: a publish was answered 200 although the topic's only
\* subscriber had already lost a message to the overflow of its buffer and
\* lost another one to this publish.
C16_Witness ==
    /\ req.op = "publish"
    /\ req.args = <<Topic1, Msg(CHANNEL_CAPACITY + 2)>>
    /\ resp.status = 200
    /\ Len(subs) = 1
    /\ subs[1].lagged = 2
    /\ Len(subs[1].queue) = CHANNEL_CAPACITY

\* C16 happens too for a topic that did not exist and has no subscriber.
C16_WitnessNewTopic ==
    /\ req.op = "publish"
    /\ req.args = <<Topic2, Hello>>
    /\ resp.status = 200
    /\ Topic2 \in streams
    /\ \A i \in 1..Len(subs) : subs[i].name # Topic2

\* C16 happens too for a topic whose subscribers have all ended.
C16_WitnessNoReceiver ==
    /\ req.op = "publish"
    /\ req.args[1] = Topic1
    /\ resp.status = 200
    /\ Len(subs) = 2
    /\ \A i \in 1..Len(subs) : subs[i].pc = "closed"
    /\ Len(Log(published, Topic1)) > CHANNEL_CAPACITY

NameTooLarge(name) == KeyLen(name) > KeyLen(TopicAtLimit)

\* C17: a publish to a name of more than 512 bytes is answered 413, a
\* subscribe to such a name is answered with a client error, and no topic of
\* such a name exists.
C17_NameLimit ==
    /\ (req.op = "publish" /\ NameTooLarge(req.args[1])) => resp.status = 413
    /\ (req.op = "subscribe" /\ NameTooLarge(req.args[1])) =>
          resp.status \in 400..499
    /\ \A t \in streams : ~NameTooLarge(t)

\* C17, the publish alone: a publish to a name of more than 512 bytes is
\* not answered 200.
C17_PublishNameLimit ==
    (req.op = "publish" /\ NameTooLarge(req.args[1])) => resp.status # 200

\* C17, the rest: a name of exactly 512 bytes is accepted by publish and
\* subscribe, a body of more than 20 MiB is answered 413 and reaches nobody,
\* and a body of exactly 20 MiB is accepted and waits for or has reached
\* every subscriber that was there.
C17_BodyLimit ==
    /\ (req.op = "publish" /\ MessageTooLarge(req.args[2])) => resp.status = 413
    /\ \A i \in 1..Len(subs) :
         \A j \in 1..Len(subs[i].sent \o subs[i].queue) :
            ~MessageTooLarge((subs[i].sent \o subs[i].queue)[j])
    /\ \A t \in DOMAIN published : \A j \in 1..Len(published[t]) :
         ~MessageTooLarge(published[t][j])
    /\ (req.op = "publish" /\ ~MessageTooLarge(req.args[2])) => resp.status = 200
    /\ (req.op = "subscribe" /\ req.args[1] = TopicAtLimit) => resp = Upgraded

\* C17_BodyLimit happens: a body of exactly 20 MiB published to the name of
\* 512 bytes has been sent to a subscriber, and a body of one byte more was
\* just refused.
C17_BodyLimitWitness ==
    /\ req.op = "publish"
    /\ req.args[2] = ValueOverLimit
    /\ resp.status = 413
    /\ \E i \in 1..Len(subs) :
         subs[i].name = TopicAtLimit /\ subs[i].sent = <<ValueAtLimit>>

\* C18: a topic enters the registry with an accepted publish to its name or
\* with the subscription of a task to its name, both put it there, and no
\* step of the server takes a topic out of the registry.
C18_TopicsPersist ==
    [][/\ streams \subseteq streams'
       /\ \A t \in streams' \ streams :
            \/ /\ req'.op = "publish" /\ req'.args[1] = t
               /\ resp'.status = 200
               /\ Len(Log(published', t)) = Len(Log(published, t)) + 1
            \/ \E i \in 1..Len(subs) :
                 /\ subs[i].name = t
                 /\ subs[i].pc = "upgraded" /\ subs'[i].pc = "receiving"
       /\ \A t \in DOMAIN published' : t \in streams'
       /\ \A i \in 1..Len(subs') :
            subs'[i].pc # "upgraded" => subs'[i].name \in streams']_vars

\* C18 happens: one topic was created by a subscription and is still there
\* after its only subscriber ended, the other was created
\* by a publish and never had a subscriber.
C18_Witness ==
    /\ streams = {Topic1, Topic2}
    /\ Len(subs) = 1
    /\ subs[1].name = Topic1
    /\ subs[1].pc = "closed"
    /\ subs[1].joined = 0
    /\ subs[1].sent = <<>>
    /\ Len(Log(published, Topic1)) = 1
    /\ Len(Log(published, Topic2)) = 1

\* C19: a receiving task that gets a frame other than Close from its client
\* is still receiving, with what it holds and what it has sent unchanged,
\* and still gets what is published next; a Close frame or a failed send
\* ends it; a task that has ended sends nothing more, gets nothing more and
\* stays ended.
C19_Transitions ==
    [][\A i \in 1..Len(subs) :
         /\ subs[i].pc = "closed" => subs'[i] = subs[i]
         /\ (subs[i].pc = "receiving" /\ SocketNext(i, "Other")) =>
               /\ subs'[i] = [subs[i] EXCEPT !.unexpected = TRUE]
               /\ Subscribed(subs'[i])
         /\ (subs[i].pc = "receiving" /\ SocketNext(i, "Close")) =>
               (subs'[i].pc = "closed" /\ subs'[i].sent = subs[i].sent)
         /\ (subs[i].pc = "receiving" /\ Forward(i, FALSE)) =>
               (subs'[i].pc = "closed" /\ subs'[i].sent = subs[i].sent)
         /\ (subs[i].unexpected /\ subs[i].pc = "receiving"
               /\ req'.op = "publish" /\ resp'.status = 200
               /\ published' # published /\ req'.args[1] = subs[i].name) =>
               subs'[i].queue = Append(subs[i].queue, req'.args[2])
         /\ (subs[i].unexpected /\ subs[i].pc = "receiving"
               /\ Forward(i, TRUE)) =>
               subs'[i].sent = Append(subs[i].sent, subs[i].queue[1])]_vars

\* C19 happens: one task of the topic got a frame other than Close and has
\* both messages of the topic, one sent and one waiting; the other task
\* ended after the first message and has no more than that one.
C19_Witness ==
    /\ Len(subs) = 2
    /\ subs[1].name = subs[2].name
    /\ Log(published, subs[1].name) = <<Value1, Hello>>
    /\ subs[1].unexpected
    /\ subs[1].pc = "receiving"
    /\ subs[1].sent = <<Value1>>
    /\ subs[1].queue = <<Hello>>
    /\ subs[2].pc = "closed"
    /\ subs[2].joined = 0
    /\ subs[2].sent = <<Value1>>

\* C32: once the Close frame of a subscriber has reached the server, the
\* subscriber's task ends, whatever is published to its topic meanwhile,
\* when the socket branch of its select! is taken in the end.
C32_CloseTerminates ==
    \A i \in 1..MaxSubs :
       (i <= Len(subs) /\ subs[i].closing)
          ~> (i <= Len(subs) /\ subs[i].pc = "closed")

\* C32 happens: the task has ended after its Close frame came while the
\* topic was so busy that the other subscriber's receiver is full.
C32_Witness ==
    /\ Len(subs) = 2
    /\ subs[1].closing /\ subs[1].pc = "closed"
    /\ subs[2].pc = "receiving" /\ Len(subs[2].queue) = MaxBacklog

\* C32 happens: the Close frame is waiting while the receiver is full.
C32_WitnessPending ==
    /\ Len(subs) >= 1
    /\ subs[1].closing /\ subs[1].pc = "receiving"
    /\ Len(subs[1].queue) = MaxBacklog

\* Every task that has subscribed holds a receiver of the channel that the
\* registry has for its name.
Attached ==
    \A i \in 1..Len(subs) :
       Subscribed(subs[i]) =>
          /\ subs[i].name \in DOMAIN chans
          /\ subs[i].chan = Some(chans[subs[i].name])

\* C33: a task whose channel has closed while it was receiving leaves its
\* loop: it does not stay a receiver of a channel that delivers no more.
C33_ClosedChannelExits ==
    \A i \in 1..MaxSubs :
       (i <= Len(subs) /\ ChannelClosed(subs[i]))
          ~> (i <= Len(subs) /\ subs[i].pc = "closed")

\* C34: a name gets one channel and keeps it: a channel installed for a
\* name is never replaced, so every task that has subscribed to the name
\* holds a receiver of the channel that the publishes to the name send on.
C34_OneChannel ==
    /\ []Attached
    /\ [][\A n \in DOMAIN chans : chans'[n] = chans[n]]_vars

\* C35: whenever set evaluates now_secs - updated_at on the entry it has
\* read, updated_at is not later than now_secs: the u64 subtraction has a
\* result, also when calls on the same key run side by side.
C35_NoUnderflow ==
    [][\A j \in 1..Len(calls) :
          (/\ calls[j].pc = "read"
           /\ calls'[j].pc # "read"
           /\ calls[j].key \in DOMAIN db)
          => db[calls[j].key].updated_at <= NowSecs(calls[j].req.at)]_vars

\* C37: a set answered KeyTooLarge, ValueTooLarge or UpdateRateExceeded
\* leaves the store as it was; every entry keeps the second of its last
\* accepted write, so a set within the size limits to a key last written in
\* an earlier second is accepted, whatever was refused in between.
C37_FailedSetNoEffect ==
    [][(req'.op = "kv_set" /\ now' = now /\ resp'.status # 401) =>
          LET k == req'.args[1]
              v == req'.args[2]
          IN  /\ resp'.error \in {"KeyTooLarge", "ValueTooLarge",
                                  "UpdateRateExceeded"} => db' = db
              /\ (/\ ~KeyTooLarge(k) /\ ~ValueTooLarge(v)
                  /\ k \in DOMAIN db
                  /\ NowSecs(now) > db[k].updated_at)
                 => /\ resp'.status = 200
                    /\ db'[k].value = v
              /\ \A kk \in DOMAIN db' :
                    db'[kk].updated_at = NowSecs(written'[kk].at)]_vars

\* A set refused by the limiter, later in the second of the accepted write.
C37_Witness ==
    /\ IsSet
    /\ resp.error = "UpdateRateExceeded"
    /\ req.args[1] = KeyA
    /\ req.at > written[KeyA].at
    /\ db[KeyA].updated_at = NowSecs(written[KeyA].at)

\* A set refused for its size while the key holds an entry.
C37_WitnessSize ==
    /\ IsSet
    /\ resp.error = "ValueTooLarge"
    /\ req.args[1] \in DOMAIN db

\* The key written at 0.001 s is written again at 1.000 s, the first
\* millisecond of the next second.
C37_WitnessAgain ==
    /\ IsSet
    /\ resp.status = 200
    /\ req.args[1] = KeyA
    /\ req.at = SecMs
    /\ nwrites >= 2

\* C38: a request answered 401 changes nothing on the server: the entries
\* of the store, the topics, the subscribers and what they have received are
\* what they were before the request.
C38_UnauthorizedNoEffect ==
    [][(req' # req /\ resp'.status = 401) =>
          /\ db' = db
          /\ streams' = streams
          /\ subs' = subs
          /\ published' = published
          /\ chans' = chans]_vars

\* A publish answered 401 while a subscriber of its topic is receiving and
\* the store holds entries: the subscriber has nothing to forward.
C38_Witness ==
    /\ req.op = "publish"
    /\ resp.status = 401
    /\ Len(subs) = 1
    /\ subs[1].pc = "receiving" /\ subs[1].name = req.args[1]
    /\ subs[1].queue = <<>> /\ subs[1].sent = <<>>
    /\ published = EmptyMap
    /\ KeyA \in DOMAIN db

\* A set and a subscribe answered 401 on a server that holds nothing.
C38_WitnessSet ==
    /\ req.op \in {"kv_set", "adb_set_key", "adb_set_node_digest"}
    /\ resp.status = 401
    /\ db = EmptyMap

C38_WitnessSubscribe ==
    /\ req.op = "subscribe"
    /\ resp.status = 401
    /\ subs = <<>> /\ streams = {}

\* "a" holds "hi!", written over "v1!".
Overwritten == KeyA \in DOMAIN written /\ written[KeyA].value = Hello

\* C36: once set("a", "hi!") has overwritten "v1!", no read returns "v1!":
\* a get answers NotFound while "hi!" is not visible and "hi!" from then on;
\* a query leaves "a" out while "hi!" is not visible and never lists it
\* with another value.
C36_NoStaleRead ==
    Overwritten =>
       /\ (IsGet /\ req.args[1] = KeyA) =>
             IF req.at < db[KeyA].visible_at
             THEN resp = Err("NotFound")
             ELSE resp = Ok(<<[value |-> Base64Encode(Hello)]>>)
       /\ IsQuery =>
             /\ \A i \in 1..Len(resp.body) :
                   resp.body[i].key = KeyA =>
                      resp.body[i].value = Base64Encode(Hello)
             /\ req.at < db[KeyA].visible_at => KeyA \notin ResultKeys
             /\ (req.at >= db[KeyA].visible_at /\ req.args[3] = None) =>
                   KeyA \in ResultKeys

\* A get in the gap: "v1!" was visible, "hi!" is not yet, the answer is
\* NotFound.
C36_Witness ==
    /\ Overwritten
    /\ IsGet /\ req.args[1] = KeyA
    /\ req.at < db[KeyA].visible_at
    /\ resp.status = 404

\* A query in the gap, which lists "b" only, and a get after it.
C36_WitnessQuery ==
    /\ Overwritten
    /\ IsQuery
    /\ req.at < db[KeyA].visible_at
    /\ ResultKeys = {KeyB}

C36_WitnessVisible ==
    /\ Overwritten
    /\ IsGet /\ req.args[1] = KeyA
    /\ resp = Ok(<<[value |-> Base64Encode(Hello)]>>)

\* The messages a task holds: the ones it has sent to its client and the
\* ones waiting in its receiver.
Held(sub) == {sub.sent[k] : k \in 1..Len(sub.sent)}
                \cup {sub.queue[k] : k \in 1..Len(sub.queue)}

\* C40: a message published to one topic reaches the subscribers of that
\* topic only: a publish to a name leaves every task subscribed to another
\* name as it was, and every message a task holds was published to its name.
C40_TopicIsolation ==
    /\ [](\A i \in 1..Len(subs) :
             \A msg \in Held(subs[i]) :
                \E k \in 1..Len(Log(published, subs[i].name)) :
                   Log(published, subs[i].name)[k] = msg)
    /\ [][\A t \in StreamTopics :
             Log(published, t)' # Log(published, t) =>
                \A i \in 1..Len(subs) :
                   subs[i].name # t => subs'[i] = subs[i]]_vars

\* Both topics have a subscriber; each has been sent the one message of its
\* topic, and the two messages differ.
C40_Witness ==
    \E i, j \in 1..Len(subs) :
       /\ subs[i].name = Topic1 /\ subs[j].name = Topic2
       /\ Log(published, Topic1) = <<Hello>>
       /\ Log(published, Topic2) = <<Value1>>
       /\ subs[i].sent = <<Hello>> /\ subs[j].sent = <<Value1>>

\* A publish to one topic while a task is subscribed to the other and to no
\* message yet.
C40_WitnessOther ==
    \E j \in 1..Len(subs) :
       /\ subs[j].name = Topic2 /\ subs[j].pc = "receiving"
       /\ subs[j].joined = 0 /\ Held(subs[j]) = {}
       /\ Log(published, Topic1) # <<>>
       /\ Log(published, Topic2) = <<>>

----------------------------------------------------------------------------
(* Claims about the ADB *)

Bytes(v) == v.data \o Zeros(v.zeros)

RECURSIVE ProofLen(_)
ProofLen(proof_data) ==
    IF proof_data = <<>> THEN 0
    ELSE ValLen(proof_data[1]) + ProofLen(Tail(proof_data))

\* This step is a get(k, p + 1) that follows an accepted set_key(k, p, v).
GetAfterSetKey ==
    /\ req.op = "adb_set_key" /\ resp.status = 200
    /\ req'.op = "adb_get"
    /\ req'.args = <<req.args[1], req.args[2] + 1>>

\* The answer carries v, p and a proof of whole digests.
GetReturnsSet ==
    /\ resp'.status = 200
    /\ Bytes(resp'.body.value) = Bytes(req.args[3])
    /\ resp'.body.position = req.args[2]
    /\ ProofLen(resp'.body.proof_data) % DIGEST_SIZE = 0

\* The nodes whose digests the proof of position p in an MMR of p + 1 nodes
\* is made of, and whether the store has them all.
ProofNodes(p) == NodesRequired(p + 1, p)[1]
ProofNodesStored(p) ==
    \A i \in 1..Len(ProofNodes(p)) : NodeKey(ProofNodes(p)[i]) \in DOMAIN db

\* C20 as stated: set_key(k, p, v) followed by get(k, p + 1) returns value v,
\* position p and a proof_data whose length is a multiple of 32, for every
\* k, p and v.
C20_AsStated == [][GetAfterSetKey => GetReturnsSet]_vars

\* C20: set_key(k, p, v) followed by get(k, p + 1) returns value v,
\* position p and a proof_data whose length is a multiple of 32 if the
\* digest of every node of the proof is in the store, which is so for p = 0,
\* whose proof is empty, and if p + 1 is the size of an MMR; with a digest
\* missing it answers 500 MissingData or, where p + 1 is no size of an MMR,
\* may not answer at all; it answers 200 in no other case and never with
\* another value or position.
C20_RoundTrip ==
    [][GetAfterSetKey =>
         LET p == req.args[2]
         IN  /\ resp'.status = 200 => (GetReturnsSet /\ ProofNodesStored(p))
             /\ (ProofNodesStored(p) /\ ~InvalidSize(p + 1)) => GetReturnsSet
             /\ p = 0 => (GetReturnsSet /\ resp'.body.proof_data = <<>>)
             /\ ~ProofNodesStored(p) =>
                   resp' \in {StoreErr("MissingData"), Panicked}
             /\ resp' = Panicked => InvalidSize(p + 1)]_vars

\* C20 happens: the key was set at leaf 3, the digest of node 2 is in the
\* store, and get with size 4 returned the value, position 3 and that digest.
C20_Witness ==
    /\ req.op = "adb_get"
    /\ req.args = <<AdbKeyText, 4>>
    /\ resp.status = 200
    /\ resp.body.value = Hello
    /\ resp.body.position = 3
    /\ resp.body.proof_data = <<Digest1>>

\* C20 happens for the first leaf too: get with size 1 returned the value,
\* position 0 and an empty proof.
C20_WitnessFirstLeaf ==
    /\ req.op = "adb_get"
    /\ req.args = <<AdbKeyText, 1>>
    /\ resp.status = 200
    /\ resp.body.value = Value1
    /\ resp.body.position = 0
    /\ resp.body.proof_data = <<>>

\* The entry of the key that the last get asked for, the position stored in
\* it, and the nodes of its proof for the size the get asked for.
GetDbKey == KeyDbKey(DecodeText(req.args[1]))
GetPosition == ValueDeserialize(db[GetDbKey].value)[1].position
GetNodes == NodesRequired(req.args[2], GetPosition)
GetNodesStored ==
    \A i \in 1..Len(GetNodes[1]) : NodeKey(GetNodes[1][i]) \in DOMAIN db

\* The size the get asked for is the size of an MMR that holds the position.
GetSizeHoldsPosition == ~InvalidSize(req.args[2]) /\ GetNodes # None

\* C21: get answers 404 NotFound when the store has no entry for the key;
\* when it has one and the digest of a node of the proof is not stored, get
\* answers 500 MissingData with no body; when all of them are stored it
\* answers 200.
C21_GetErrors ==
    req.op = "adb_get" =>
      IF GetDbKey \notin DOMAIN db THEN resp = StoreErr("NotFound")
      ELSE GetSizeHoldsPosition =>
             IF GetNodesStored THEN resp.status = 200
             ELSE resp = StoreErr("MissingData") /\ resp.body = <<>>

\* C21 happens: the key is at leaf 0, the get asked for size 4, whose proof
\* is made of nodes 3 and 1, node 3 has its digest and node 1 has none, and
\* the answer is MissingData.
C21_Witness ==
    /\ req.op = "adb_get"
    /\ req.args = <<AdbKeyText, 4>>
    /\ GetDbKey \in DOMAIN db
    /\ GetPosition = 0
    /\ NodeKey(3) \in DOMAIN db
    /\ NodeKey(1) \notin DOMAIN db
    /\ resp = StoreErr("MissingData")

\* C21 happens: the same get succeeds once both digests are stored.
C21_WitnessStored ==
    /\ req.op = "adb_get"
    /\ req.args = <<AdbKeyText, 4>>
    /\ GetDbKey \in DOMAIN db
    /\ GetPosition = 0
    /\ NodeKey(3) \in DOMAIN db
    /\ NodeKey(1) \in DOMAIN db
    /\ resp.status = 200

\* C21 happens: no entry for the key, and the answer is NotFound.
C21_WitnessAbsent ==
    /\ req.op = "adb_get"
    /\ GetDbKey \notin DOMAIN db
    /\ NodeKey(2) \in DOMAIN db
    /\ resp = StoreErr("NotFound")

\* The key of a node's digest, byte by byte, for a position below 256.
PositionKey(position) ==
    ToRuns(<<POS_NAMESPACE_PREFIX, 0, 0, 0, 0, 0, 0, 0, position>>)

\* C22: set_node_digest with a body of exactly 32 bytes answers 200 and
\* stores the body under 0x01 followed by the position as 8 big-endian
\* bytes, changing nothing else; with a body of any other length it answers
\* 400 InvalidBody and changes nothing; so every entry of the position
\* namespace holds 32 bytes.
C22_NodeDigest ==
    [][req'.op = "adb_set_node_digest" =>
         LET position == req'.args[1]
             body == req'.args[2]
         IN  /\ IF ValLen(body) = 32
                THEN /\ resp' = Ok(<<>>)
                     /\ DOMAIN db' = DOMAIN db \cup {PositionKey(position)}
                     /\ db'[PositionKey(position)].value = body
                     /\ \A k \in DOMAIN db \ {PositionKey(position)} :
                          db'[k] = db[k]
                ELSE /\ resp'.status = 400 /\ resp'.error = "InvalidBody"
                     /\ db' = db
             /\ \A k \in DOMAIN db' :
                  k[1].b = POS_NAMESPACE_PREFIX => ValLen(db'[k].value) = 32]_vars

\* C22 happens: a body of 31 bytes for node 2 was refused and the digest
\* that node 2 had is still there.
C22_Witness ==
    /\ req.op = "adb_set_node_digest"
    /\ req.args = <<2, DigestShort>>
    /\ resp = StoreErr("InvalidBody")
    /\ PositionKey(2) \in DOMAIN db
    /\ db[PositionKey(2)].value = Digest1

\* C22 happens: a body of 32 bytes for node 3 was stored.
C22_WitnessStored ==
    /\ req.op = "adb_set_node_digest"
    /\ req.args = <<3, Digest2>>
    /\ resp.status = 200
    /\ db[PositionKey(3)].value = Digest2

\* C23: an entry written by set_key or set_node_digest has visible_at = 0,
\* and from the write on a KV get of its prefixed key answers 200 with the
\* stored bytes and an ADB get of the key answers 200 (given the digests of
\* its proof), whatever the consistency bounds and the clock.
C23_AdbVisible ==
    /\ \A k \in DOMAIN db \cap {AdbDbKey, NodeKey(1)} : db[k].visible_at = 0
    /\ (req.op = "kv_get" /\ req.args[1] \in DOMAIN db \cap {AdbDbKey, NodeKey(1)})
          => resp = Ok(<<[value |-> Base64Encode(db[req.args[1]].value)]>>)
    /\ (req.op = "adb_get" /\ AdbDbKey \in DOMAIN db
          /\ (req.args[2] = 3 => NodeKey(1) \in DOMAIN db))
          => resp.status = 200

\* C23, step by step: the request that directly follows an accepted set_key
\* or set_node_digest, with no time passed, reads what was written.
C23_ReadableAtOnce ==
    [][/\ (req.op = "adb_set_key" /\ resp.status = 200 /\ req'.op = "kv_get"
            /\ req'.args[1] = AdbDbKey) => resp'.status = 200
       /\ (req.op = "adb_set_key" /\ resp.status = 200 /\ req'.op = "adb_get"
            /\ req'.args[2] = 1) => resp'.status = 200
       /\ (req.op = "adb_set_node_digest" /\ resp.status = 200
            /\ req'.op = "kv_get" /\ req'.args[1] = NodeKey(req.args[1]))
            => resp' = Ok(<<[value |-> Base64Encode(req.args[2])]>>)]_vars

\* C23 happens: with a consistency bound of at least a millisecond and no
\* time passed since the start, the entry of a KV set is still invisible,
\* and a KV get of the prefixed key of the ADB entry has answered 200.
C23_Witness ==
    /\ cfg.consistency_bound_min > 0
    /\ now = 0
    /\ KeyA \in DOMAIN db
    /\ db[KeyA].visible_at > now
    /\ AdbDbKey \in DOMAIN db
    /\ req.op = "kv_get"
    /\ req.args[1] = AdbDbKey
    /\ resp.status = 200

\* The first byte of a stored key.
FirstByte(k) == k[1].b

\* C24 as stated: every key of the database begins with the prefix byte
\* 0x00 or 0x01.
C24_AsStated ==
    \A k \in DOMAIN db :
       FirstByte(k) \in {KEY_NAMESPACE_PREFIX, POS_NAMESPACE_PREFIX}

\* C24: an accepted set_key adds or overwrites the key 0x00 followed by the
\* decoded key bytes, an accepted set_node_digest the key 0x01 followed by
\* the position as 8 big-endian bytes, and an accepted KV set the key bytes
\* as the client gave them, with no prefix byte put in front; no step
\* writes any other key.
C24_KeyFormats ==
    [][/\ (req'.op = "adb_set_key" /\ resp'.status = 200) =>
            DOMAIN db' = DOMAIN db \cup
               {ToRuns(<<KEY_NAMESPACE_PREFIX>> \o DecodeText(req'.args[1]))}
       /\ (req'.op = "adb_set_node_digest" /\ resp'.status = 200) =>
            DOMAIN db' = DOMAIN db \cup {PositionKey(req'.args[1])}
       /\ (req'.op = "kv_set" /\ resp'.status = 200) =>
            DOMAIN db' = DOMAIN db \cup {req'.args[1]}
       /\ (req'.op \notin {"adb_set_key", "adb_set_node_digest", "kv_set"}
            \/ resp'.status # 200) => DOMAIN db' = DOMAIN db
       /\ \A k \in DOMAIN db' :
            \/ FirstByte(k) = KEY_NAMESPACE_PREFIX /\ KeyLen(k) = 4
            \/ FirstByte(k) = POS_NAMESPACE_PREFIX /\ KeyLen(k) = 9
            \/ k = KeyA]_vars

\* C24 happens: the database holds a key written by each of the three
\* operations; the one of the KV set is the single byte "a".
C24_Witness ==
    /\ DOMAIN db = {KeyA, AdbDbKey, PositionKey(1)}
    /\ FirstByte(AdbDbKey) = KEY_NAMESPACE_PREFIX
    /\ FirstByte(KeyA) = 97
    /\ written # EmptyMap

\* C39 as stated: an entry under a 0x00 key is created or changed by
\* set_key only, an entry under a 0x01 key by set_node_digest only; a plain
\* KV set changes neither.
C39_AsStated ==
    [][\A k \in DOMAIN db' :
          (k \notin DOMAIN db \/ db'[k] # db[k]) =>
             /\ FirstByte(k) = KEY_NAMESPACE_PREFIX => req'.op = "adb_set_key"
             /\ FirstByte(k) = POS_NAMESPACE_PREFIX =>
                   req'.op = "adb_set_node_digest"]_vars

\* C39: an entry under a 0x00 key is created or changed only by set_key of
\* that key or by a plain KV set whose own key is that database key, an
\* entry under a 0x01 key only by set_node_digest of that position or by a
\* plain KV set whose own key is that database key; a plain KV set changes
\* the entry under the key bytes the client gave and no other.
C39_NamespaceWriters ==
    [][\A k \in DOMAIN db' :
          (k \notin DOMAIN db \/ db'[k] # db[k]) =>
             /\ FirstByte(k) = KEY_NAMESPACE_PREFIX =>
                   \/ /\ req'.op = "adb_set_key"
                      /\ k = ToRuns(<<KEY_NAMESPACE_PREFIX>>
                                       \o DecodeText(req'.args[1]))
                   \/ req'.op = "kv_set" /\ k = req'.args[1]
             /\ FirstByte(k) = POS_NAMESPACE_PREFIX =>
                   \/ /\ req'.op = "adb_set_node_digest"
                      /\ k = PositionKey(req'.args[1])
                   \/ req'.op = "kv_set" /\ k = req'.args[1]
             /\ req'.op = "kv_set" => k = req'.args[1]]_vars

\* A plain KV set has written the entry under 0x00 "key", the database key
\* of ADB key "key", and the digest of node 1 is stored beside it.
C39_Witness ==
    /\ req.op = "kv_set" /\ resp.status = 200
    /\ req.args[1] = AdbDbKey
    /\ db[AdbDbKey].value = req.args[2]
    /\ db[AdbDbKey].visible_at >= req.at
    /\ PositionKey(1) \in DOMAIN db
    /\ db[PositionKey(1)].value = Digest1

\* set_key and set_node_digest have each written their own namespace.
C39_WitnessAdb ==
    /\ req.op = "adb_set_node_digest" /\ resp.status = 200
    /\ DOMAIN db = {AdbDbKey, PositionKey(1)}
    /\ db[AdbDbKey].value = ValueSerialize(Value1, 0)

\* C30: a get that succeeds returns as proof_data the stored digests of the
\* nodes required for (mmr_size, position), one digest of 32 bytes per
\* required node and in the order of the required nodes, so proof_data is
\* 32 bytes times the number of required nodes long, and empty when no node
\* is required.
C30_ProofData ==
    (req.op = "adb_get" /\ resp.status = 200) =>
       LET nodes == GetNodes[1]
           proof_data == resp.body.proof_data
       IN  /\ Len(proof_data) = Len(nodes)
           /\ \A i \in 1..Len(nodes) :
                 /\ proof_data[i] = db[NodeKey(nodes[i])].value
                 /\ ValLen(proof_data[i]) = DIGEST_SIZE
           /\ ProofLen(proof_data) = DIGEST_SIZE * Len(nodes)

\* C30 happens: the proof of position 0 in an MMR of 4 nodes needs nodes 3
\* and 1, in that order; the two hold different digests and the get returned
\* the digest of node 3 followed by the digest of node 1.
C30_Witness ==
    /\ req.op = "adb_get"
    /\ req.args[2] = 4
    /\ resp.status = 200
    /\ resp.body.position = 0
    /\ GetNodes[1] = <<3, 1>>
    /\ db[NodeKey(3)].value # db[NodeKey(1)].value
    /\ resp.body.proof_data = <<db[NodeKey(3)].value, db[NodeKey(1)].value>>
    /\ ProofLen(resp.body.proof_data) = 64

\* C30 happens: the proof of position 0 in an MMR of 1 node needs no node
\* and the get returned an empty proof_data.
C30_WitnessEmpty ==
    /\ req.op = "adb_get"
    /\ req.args[2] = 1
    /\ resp.status = 200
    /\ GetNodes[1] = <<>>
    /\ resp.body.proof_data = <<>>
    /\ ProofLen(resp.body.proof_data) = 0

\* C31: set_key with a well-formed key and set_node_digest with a digest
\* of 32 bytes are accepted however often the key or the node was written in
\* the current second, and never answered UpdateRateExceeded; a get that
\* succeeds returns the value and the position of the last set_key.
C31_NotRateLimited ==
    /\ req.op \in {"adb_set_key", "adb_set_node_digest"}
          => resp.error # "UpdateRateExceeded"
    /\ (req.op = "adb_set_key" /\ ValidText(req.args[1])) => resp.status = 200
    /\ (req.op = "adb_set_node_digest" /\ ValLen(req.args[2]) = DIGEST_SIZE)
          => resp.status = 200
    /\ (req.op = "adb_get" /\ resp.status = 200)
          => /\ Bytes(resp.body.value) = Bytes(written[GetDbKey].value)
             /\ resp.body.position = written[GetDbKey].position

\* C31 happens: the third set_key of the key within one second was accepted.
C31_Witness ==
    /\ req.op = "adb_set_key"
    /\ resp.status = 200
    /\ WritesThisSecond(AdbDbKey) = 3
    /\ written[AdbDbKey].value = req.args[3]

\* C31 happens: the third digest of the node within one second was accepted.
C31_WitnessNode ==
    /\ req.op = "adb_set_node_digest"
    /\ resp.status = 200
    /\ WritesThisSecond(NodeKey(1)) = 3

\* C31 happens: a get after three set_key within the second returned what
\* the last of them set.
C31_WitnessGet ==
    /\ req.op = "adb_get"
    /\ resp.status = 200
    /\ WritesThisSecond(AdbDbKey) = 3
    /\ Bytes(resp.body.value) = Bytes(Hello)
    /\ written[AdbDbKey].value = Hello
    /\ resp.body.position = 0

----------------------------------------------------------------------------
(* More claims about the KV store *)

\* What a client gets for a key the store does not have.
AbsentResponse == [status |-> 404, error |-> "NotFound", body |-> <<>>]

\* C25: a KV get of a key that is stored but not yet visible at the time of
\* the read is answered exactly as a get of a key that is not stored: the
\* two stores give the client the same status, message and body.
C25_Indistinguishable ==
    (req.op = "kv_get" /\ Admitted) =>
       /\ req.args[1] \notin DOMAIN db => resp = AbsentResponse
       /\ (req.args[1] \in DOMAIN db /\ db[req.args[1]].visible_at > now)
             => resp = AbsentResponse

\* C25 happens: a get of a key that is stored and becomes visible a
\* millisecond later was answered as if the key were absent.
C25_Witness ==
    /\ req.op = "kv_get"
    /\ req.args[1] = KeyA
    /\ KeyA \in DOMAIN db
    /\ db[KeyA].visible_at = now + 1
    /\ resp = AbsentResponse

\* C25 happens: the other store, at the same moment and for the same key,
\* in which the key is absent while another key is stored.
C25_WitnessAbsent ==
    /\ req.op = "kv_get"
    /\ req.args[1] = KeyA
    /\ KeyA \notin DOMAIN db
    /\ KeyAtLimit \in DOMAIN db
    /\ resp = AbsentResponse

\* The last successful set of the key happened in the current clock second.
WrittenThisSecond(key) ==
    /\ key \in DOMAIN written
    /\ written[key].at \div SecMs = now \div SecMs

\* C27: a KV set (of a key and value within the size limits) to a key whose
\* last successful write happened in the same clock second fails with
\* UpdateRateExceeded and leaves the store as it was, whether or not the
\* stored entry is visible yet; in particular it fails while a get of the
\* key is still answered NotFound.  (A step that leaves the clock alone and
\* ends with a set request is a set.)
C27_RateLimitIgnoresVisibility ==
    [][(/\ req'.op = "kv_set"
        /\ now' = now
        /\ resp'.status # 401
        /\ ~KeyTooLarge(req'.args[1])
        /\ ~ValueTooLarge(req'.args[2])
        /\ WrittenThisSecond(req'.args[1]))
       => /\ resp'.error = "UpdateRateExceeded"
          /\ resp'.status = 429
          /\ db' = db]_vars

\* C27 happens: a set of a key written in this second was refused while the
\* entry it was refused for is not visible, so that a get is answered
\* NotFound.
C27_Witness ==
    /\ req.op = "kv_set"
    /\ req.args[1] = KeyA
    /\ resp.error = "UpdateRateExceeded"
    /\ WrittenThisSecond(KeyA)
    /\ db[KeyA].visible_at > now
    /\ GetResult(db, KeyA, now) = AbsentResponse

\* C27 happens: the same refusal for an entry that is visible.
C27_WitnessVisible ==
    /\ req.op = "kv_set"
    /\ req.args[1] = KeyA
    /\ resp.error = "UpdateRateExceeded"
    /\ WrittenThisSecond(KeyA)
    /\ db[KeyA].visible_at <= now

\* C28: a set call that has passed the limiter succeeds whatever was
\* written to its key since it read the store, so two calls on one key that
\* both read the store before either wrote, and both found no entry, both
\* succeed, also within one clock second; and the entry stored under a key
\* is always, whole, the entry of one of the calls that wrote it.
C28_RacyLimiter ==
    /\ \A j \in 1..Len(calls) : \A i \in calls[j].racing :
          (/\ calls[i].pc = "done" /\ calls[j].pc = "done"
           /\ ~calls[i].found /\ ~calls[j].found)
          => calls[i].status = 200 /\ calls[j].status = 200
    /\ \A k \in DOMAIN db :
          \E i \in 1..Len(calls) :
             /\ calls[i].pc = "done"
             /\ calls[i].key = k
             /\ db[k] = calls[i].entry

\* C28 happens: two calls on one key with different values both read the
\* empty store before either wrote, both succeeded in the same clock
\* second, and the store holds the entry of one of them.
C28_Witness ==
    /\ Len(calls) = 2
    /\ calls[1].key = KeyA /\ calls[2].key = KeyA
    /\ calls[2].racing = {1}
    /\ ~calls[1].found /\ ~calls[2].found
    /\ calls[1].entry.value # calls[2].entry.value
    /\ calls[1].entry.updated_at = calls[2].entry.updated_at
    /\ calls[1].status = 200 /\ calls[2].status = 200
    /\ now \div SecMs = calls[1].entry.updated_at
    /\ db[KeyA] \in {calls[1].entry, calls[2].entry}

\* C28 happens: in that race the first to read was the last to write, and
\* its entry is the one that stays.
C28_WitnessFirstWins ==
    /\ Len(calls) = 2
    /\ calls[1].key = KeyA /\ calls[2].key = KeyA
    /\ calls[2].racing = {1}
    /\ calls[1].status = 200 /\ calls[2].status = 200
    /\ calls[1].entry # calls[2].entry
    /\ db[KeyA] = calls[1].entry

\* The key holds an entry stamped with the current clock second.
StampedThisSecond(key) ==
    /\ key \in DOMAIN db
    /\ db[key].updated_at = now \div SecMs

\* C29: KV set looks at the key size, then at the value size, then at the
\* limiter: a set with an oversized key fails with KeyTooLarge whatever the
\* value and whether or not the key was written in this second; a set with
\* an in-limit key and an oversized value fails with ValueTooLarge whether
\* or not the key was written in this second; and only a set within both
\* limits to a key written in this second fails with UpdateRateExceeded.
\* None of the three writes.
C29_ValidationOrder ==
    [][(req'.op = "kv_set" /\ now' = now /\ resp'.status # 401) =>
         LET key == req'.args[1]
             value == req'.args[2]
         IN  /\ KeyLen(key) > MAX_KEY_SIZE
                  => resp'.error = "KeyTooLarge" /\ db' = db
             /\ (KeyLen(key) <= MAX_KEY_SIZE /\ ValLen(value) > MAX_VALUE_SIZE)
                  => resp'.error = "ValueTooLarge" /\ db' = db
             /\ (/\ KeyLen(key) <= MAX_KEY_SIZE
                 /\ ValLen(value) <= MAX_VALUE_SIZE
                 /\ StampedThisSecond(key))
                  => resp'.error = "UpdateRateExceeded" /\ db' = db]_vars

\* C29 happens: a set of an oversized value to a key written in this second
\* failed with ValueTooLarge.
C29_Witness ==
    /\ req.op = "kv_set"
    /\ req.args[1] = KeyA
    /\ req.args[2] = ValueOverLimit
    /\ StampedThisSecond(KeyA)
    /\ resp.error = "ValueTooLarge"

\* C29 happens: a set of an oversized key, written in this second and sent
\* with an oversized value, failed with KeyTooLarge.
C29_WitnessKey ==
    /\ req.op = "kv_set"
    /\ req.args[1] = LongDbKey
    /\ req.args[2] = ValueOverLimit
    /\ StampedThisSecond(LongDbKey)
    /\ resp.error = "KeyTooLarge"

----------------------------------------------------------------------------
(* Claims about the errors *)

\* The status the clients are told to expect for each error kind.
StatusTable ==
    [k \in StoreErrors \cup StreamErrors |->
       CASE k \in {"InvalidParameter", "InvalidBody"} -> 400
         [] k = "NotFound" -> 404
         [] k \in {"KeyTooLarge", "ValueTooLarge", "NameTooLarge",
                   "MessageTooLarge"} -> 413
         [] k = "UpdateRateExceeded" -> 429
         [] k \in {"MissingData", "Internal", "Db", "Bincode"} -> 500]

\* C26: every response that carries an error kind carries the one status of
\* that kind: 400 for InvalidParameter and InvalidBody, 404 for NotFound,
\* 413 for KeyTooLarge, ValueTooLarge, NameTooLarge and MessageTooLarge, 429
\* for UpdateRateExceeded, 500 for MissingData, Internal, Db and Bincode.
C26_StatusOfKind ==
    resp.error \in StoreErrors \cup StreamErrors
       => resp.status = StatusTable[resp.error]

\* C26 happens: an ADB get whose proof node is not stored failed with
\* MissingData and status 500.
C26_Witness ==
    /\ req.op = "adb_get"
    /\ resp.error = "MissingData"
    /\ resp.status = 500

\* C26 happens: a stream error was turned into a 413.
C26_WitnessStream ==
    /\ req.op = "stream_error"
    /\ resp.error = "NameTooLarge"
    /\ resp.status = 413

\* C26 happens: every error kind has been seen in a response of some
\* handler or conversion (one state per kind is reached).
C26_WitnessInternal ==
    /\ req.op = "adb_get"
    /\ resp.error = "Internal"
    /\ resp.status = 500

====
